---- MODULE Spec2Model ----
(***************************************************************************)
(* Dialogue decision engine of the gardening-consultation Telegram bot.    *)
(*                                                                         *)
(* State: the topics table, the users.token_balance column with its audit  *)
(* table token_transactions, the two in-memory dictionaries                *)
(* CONSULTATION_STATE and CONSULTATION_CONTEXT, and one record per handler *)
(* invocation (a "task") holding the handler's position and locals.        *)
(* A handler is cut into steps at its suspension points: every call to the *)
(* model provider (classification, topic comparison, embedding,            *)
(* generation), the two statements of get_or_create_open_topic and the     *)
(* statements of deduct_tokens / add_tokens.                               *)
(*                                                                         *)
(* The classifier functions are modelled at the interface the handlers are *)
(* written against: a (category, culture) pair of labels, a culture label, *)
(* a decision string.  The persistence engine is assumed available; calls  *)
(* to the model provider may fail.  CONSULTATION_CONTEXT values are        *)
(* records, a handler's local `ctx` is a copy taken when it is read.       *)
(***************************************************************************)
EXTENDS Integers, Sequences, FiniteSets, TLC

\* ------------------------------------------------------------------ bounds
MaxTurns == 3
MaxConcTurns == 4
MaxFollowUpTurns == 5
MaxOps == 4
InitBalance == 1
MaxCredit == 2

\* --------------------------------------------------------------- constants
FOLLOW_UP_QUOTA == 3
CLARIFICATION_MAX_LEN == 300
COST_NEW_TOPIC == 1
COST_ADDITIONAL_QUESTIONS == 1

Users == {"u1", "u2"}
Slots == {1, 2, 3}

NoneVal == "<None>"
Absent == "<absent>"
NoCtx == [category |-> NoneVal, culture |-> NoneVal, topic_id |-> 0, full |-> FALSE]

UNDETERMINED == "undetermined"      \* "не определено"
GENERAL_INFO == "general information"   \* "общая информация"
STRAWBERRY_GENERAL == "strawberry general"   \* "клубника общая"
RASPBERRY_GENERAL == "raspberry general"   \* "малина общая"
STRAWBERRY_SUMMER == "strawberry summer"   \* "клубника летняя"
STRAWBERRY_REMONTANT == "strawberry remontant"   \* "клубника ремонтантная"
RASPBERRY_SUMMER == "raspberry summer"   \* "малина летняя"
RASPBERRY_REMONTANT == "raspberry remontant"   \* "малина ремонтантная"
BLUEBERRY == "blueberry"   \* "голубика"
NUTRITION == "plant nutrition"   \* "питание растений"
PLANTING == "planting and care"   \* "посадка и уход"
GENERAL_CONSULTATION == "general consultation"   \* "общая консультация"

VagueCultures == {UNDETERMINED, GENERAL_INFO}
GeneralCultures == {STRAWBERRY_GENERAL, RASPBERRY_GENERAL}

\* Labels the culture classifier can hand back (the empty string included).
ClassifiedCultures ==
  {UNDETERMINED, GENERAL_INFO, STRAWBERRY_GENERAL, RASPBERRY_GENERAL, BLUEBERRY, ""}
ClassifiedCategories == {NUTRITION, PLANTING}
Decisions == {"same_topic", "clear_change", "unclear"}

\* What an incoming text contains, as far as the handlers look at it.
\* Keyword stems: remontant "ремонтант", nsd_cyr "нсд", nsd "nsd", summer "летн",
\* june "июньск", ordinary "обычн", traditional "традицион".
Keywords == {"remontant", "nsd_cyr", "nsd", "summer", "june", "ordinary", "traditional"}
AnswerTexts == {{}, {"ordinary"}, {"summer"}, {"june"}, {"remontant"}, {"nsd"},
                {"remontant", "ordinary"}}

BTN_NEW_TOPIC == "btn:new_topic"   \* "🔄 Вопрос по новой теме"
BTN_REPLACE == "btn:replace_params"   \* "✏️ Заменить параметры"
BTN_CONSULT == "btn:consultation"   \* "🧑‍🌾 Консультация"

\* An update: a text message, a reply-keyboard button (a text message with
\* a fixed text), or an inline-keyboard callback.
Inputs ==
  [kind : {"text"}, kw : AnswerTexts, data : {""}]
    \cup [kind : {"text"}, kw : {{}}, data : {BTN_NEW_TOPIC, BTN_CONSULT, "/start"}]
    \cup [kind : {"callback"}, kw : {{}},
          data : {"consult_category:nutrition", "consult_category:other",
                  "get_more_followup_questions", "new_consultation_topic"}]

\* A generated reply, as far as is_clarification_question looks at it.
ModelReplies ==
  { [len |-> 299, q |-> TRUE,  phrase |-> FALSE, kind |-> "model"],
    [len |-> 299, q |-> FALSE, phrase |-> FALSE, kind |-> "model"],
    [len |-> 300, q |-> TRUE,  phrase |-> TRUE,  kind |-> "model"] }
REPLY_EMPTY == [len |-> 62, q |-> FALSE, phrase |-> FALSE, kind |-> "apology"]
REPLY_ERROR == [len |-> 72, q |-> FALSE, phrase |-> FALSE, kind |-> "apology"]
GenerationOutcomes == ModelReplies \cup {REPLY_EMPTY, REPLY_ERROR}

VARIABLES topics, CONSULTATION_STATE, CONSULTATION_CONTEXT,
          token_balance, token_transactions, row_lock, tasks, turns_left,
          knowledge_base, document_chunks,
          clients, queue, last_heartbeat, stream, cleanup

vars == <<topics, CONSULTATION_STATE, CONSULTATION_CONTEXT,
          token_balance, token_transactions, row_lock, tasks, turns_left,
          knowledge_base, document_chunks,
          clients, queue, last_heartbeat, stream, cleanup>>

\* The registry of the admin API's event streams (SSEManager.clients), the
\* queue of each stream, whether its last heartbeat is recent, the position
\* of each stream handler, and the position of the cleanup loop.
sseVars == <<clients, queue, last_heartbeat, stream, cleanup>>

SSEClients == {"c1", "c2"}

\* No stream has connected.
NoStreams ==
  /\ clients = {}
  /\ queue = [c \in SSEClients |-> <<>>]
  /\ last_heartbeat = [c \in SSEClients |-> "recent"]
  /\ stream = [c \in SSEClients |-> "none"]
  /\ cleanup = [pending |-> {}, at |-> ""]

\* The two searched tables: the rows that are active, each with its
\* distance to the query embedding of the call at hand.
kbTables == <<knowledge_base, document_chunks>>

dbTokens == <<token_balance, token_transactions, row_lock>>

\* A handler invocation: handler h at position pc with its locals.  The
\* fields calls, out, res, reply, cls, dec record what the invocation did;
\* mod tells that the moderation_add call of the invocation fails;
\* st0, ctx0, lefts record what it found when the update was dispatched.
IdleTask ==
  [h |-> "none", pc |-> "idle", ret |-> "", dret |-> "", k |-> "", user |-> "u1",
   kw |-> {}, mod |-> FALSE,
   tid |-> 0, fu |-> FALSE, changed |-> FALSE, cat |-> NoneVal, cul |-> NoneVal,
   ncul |-> NoneVal, ctx |-> NoCtx, skip |-> FALSE, amount |-> 0, ok |-> FALSE,
   calls |-> <<>>, out |-> <<>>, res |-> "", dec |-> FALSE, left0 |-> 0,
   cls |-> NoneVal, lefts |-> <<>>, ctx0 |-> NoCtx,
   st0 |-> Absent, reply |-> [len |-> 0, q |-> FALSE, phrase |-> FALSE, kind |-> "none"]]

InitWith(budget) ==
  /\ topics = <<>>
  /\ CONSULTATION_STATE = [u \in Users |-> Absent]
  /\ CONSULTATION_CONTEXT = [u \in Users |-> NoCtx]
  /\ token_balance = [u \in Users |-> InitBalance]
  /\ token_transactions = <<>>
  /\ row_lock = [u \in Users |-> 0]
  /\ tasks = [s \in Slots |-> IdleTask]
  /\ turns_left = budget
  /\ knowledge_base = {}
  /\ document_chunks = {}
  /\ NoStreams

Init == InitWith(MaxTurns)

\* ----------------------------------------------------------- topics table
AnyOpenTopicIds(u) == {i \in 1..Len(topics) : topics[i].status = "open"}

OpenTopicIds(u) ==
  {i \in 1..Len(topics) : topics[i].user = u /\ topics[i].status = "open"}

Max(S) == CHOOSE x \in S : \A y \in S : y <= x

\* SELECT ... WHERE status = 'open' ORDER BY id DESC LIMIT 1
SelectOpenTopic(u) == IF OpenTopicIds(u) = {} THEN 0 ELSE Max(OpenTopicIds(u))

NewTopic(u) ==
  [user |-> u, status |-> "open", category |-> NoneVal, culture |-> NoneVal,
   left |-> FOLLOW_UP_QUOTA, log |-> <<>>]

close_open_topics(T, u) ==
  [i \in 1..Len(T) |->
     IF T[i].user = u /\ T[i].status = "open" THEN [T[i] EXCEPT !.status = "closed"]
     ELSE T[i]]

set_topic_culture(T, id, c) == [T EXCEPT ![id].culture = c]
set_topic_category(T, id, c) == [T EXCEPT ![id].category = c]
NotLogged(T, id, dir) == T

log_message(T, id, dir) == [T EXCEPT ![id].log = Append(@, dir)]

UncheckedDecrement(q) == q - 1
decrement_follow_up_questions(q) == IF q - 1 > 0 THEN q - 1 ELSE 0

LeftAsIs(q) == q

\* UPDATE topics SET follow_up_questions_left = 3 WHERE id = $1
reset_follow_up_questions(q) == FOLLOW_UP_QUOTA

get_topic_message_count(T, id) ==
  Cardinality({k \in 1..Len(T[id].log) : T[id].log[k] = "user"})

\* ------------------------------------------------------------ pure helpers
\* The reply carries a question marker, whatever its length.
HasQuestionMarker(r) == r.phrase \/ r.q

is_clarification_question(r) ==
  r.len < CLARIFICATION_MAX_LEN /\ (r.phrase \/ r.q)

\* The retriever is called without a cultivar filter.
NoSubcategory(culture) == NoneVal

\* The (category, subcategory) the retriever is called with by
\* ask_consultation_llm when a consultation category is passed.
RagSubcategory(culture) ==
  IF culture \notin {NoneVal, "", UNDETERMINED, GENERAL_INFO} THEN culture ELSE NoneVal

Free(s) == tasks[s].pc \in {"idle", "done", "crashed"}

\* An update is taken from the queue into a free task.
Accept(s) ==
  /\ Free(s) /\ turns_left > 0 /\ turns_left' = turns_left - 1
  /\ UNCHANGED <<kbTables, sseVars>>

\* The text given to the classifier by the clarification handlers: the
\* stored root question followed by the user's answer.
COMBINED_TEXT == "root_question + answer"

\* ---------------------------------------------------------------- dispatch
\* First matching handler, in the order the routers are included: menu,
\* consultation/nutrition, consultation/entry.
Route(st, inp) ==
  IF inp.kind = "callback" THEN
    CASE inp.data \in {"consult_category:nutrition", "consult_category:other"}
           -> "handle_consultation_category"
      [] inp.data = "get_more_followup_questions" -> "handle_get_more_questions"
      [] OTHER -> "handle_new_topic_callback"
  ELSE
    CASE inp.data = "/start" -> "cmd_start"
      [] inp.data = BTN_CONSULT -> "handle_consultation_button"
      [] st = "waiting_nutrition_root" -> "handle_nutrition_root"
      [] st = "waiting_nutrition_clarification" -> "handle_nutrition_clarification"
      [] st = "waiting_variety_clarification" -> "handle_variety_clarification"
      [] inp.data = BTN_NEW_TOPIC -> "handle_nutrition_new_topic"
      [] inp.data = BTN_REPLACE -> "handle_nutrition_replace_params"
      [] st = "waiting_param_replacement" -> "handle_param_replacement"
      [] st = "waiting_consultation_question" -> "handle_consultation_question_unified"
      [] st = "waiting_clarification_answer" -> "handle_clarification_answer"
      [] OTHER -> "handle_consultation_root"

StartTask(h, u, pc, ret) ==
  [IdleTask EXCEPT !.h = h, !.user = u, !.pc = pc, !.ret = ret,
                   !.st0 = CONSULTATION_STATE[u], !.ctx0 = CONSULTATION_CONTEXT[u],
                   !.lefts = [i \in 1..Len(topics) |-> topics[i].left]]

Call(op, category, subcategory) ==
  [op |-> op, category |-> category, subcategory |-> subcategory]

Finish(t, res) == [t EXCEPT !.pc = "done", !.res = res]

\* Nothing is kept for the next turn.
DroppedContext(category, culture, topic_id) == NoCtx

StoredContext(category, culture, topic_id) ==
  [category |-> category, culture |-> culture, topic_id |-> topic_id, full |-> FALSE]

\* ------------------------------------------------ get_or_create_open_topic
get_or_create_open_topic_select(s) ==
  /\ tasks[s].pc = "goc_select"
  /\ LET t == tasks[s]
         id == SelectOpenTopic(t.user)
     IN tasks' = [tasks EXCEPT ![s] =
                    IF id # 0 THEN [t EXCEPT !.tid = id, !.pc = t.ret]
                    ELSE [t EXCEPT !.pc = "goc_insert"]]
  /\ UNCHANGED <<topics, CONSULTATION_STATE, CONSULTATION_CONTEXT, dbTokens>>
  /\ UNCHANGED <<turns_left, kbTables, sseVars>>

get_or_create_open_topic_insert(s) ==
  /\ tasks[s].pc = "goc_insert"
  /\ LET t == tasks[s] IN
     /\ topics' = Append(topics, NewTopic(t.user))
     /\ tasks' = [tasks EXCEPT ![s] = [t EXCEPT !.tid = Len(topics) + 1, !.pc = t.ret]]
  /\ UNCHANGED <<CONSULTATION_STATE, CONSULTATION_CONTEXT, dbTokens>>
  /\ UNCHANGED <<turns_left, kbTables, sseVars>>

\* ----------------------------------------------------- ask_consultation_llm
\* Embedding call and, when it succeeds, the retriever call.
ask_consultation_llm_embed(s) ==
  /\ tasks[s].pc = "embed"
  /\ \E ok \in BOOLEAN :
       LET t == tasks[s]
           c1 == Append(t.calls, Call("embed", NoneVal, IF ok THEN "ok" ELSE "failed"))
           c2 == IF ok THEN Append(c1, Call("retrieve", t.cat, RagSubcategory(t.cul)))
                 ELSE c1
       IN tasks' = [tasks EXCEPT ![s] = [t EXCEPT !.calls = c2, !.pc = "gen"]]
  /\ UNCHANGED <<topics, CONSULTATION_STATE, CONSULTATION_CONTEXT, dbTokens>>
  /\ UNCHANGED <<turns_left, kbTables, sseVars>>

\* The awaited retriever query never returns: no timeout is set on the
\* pool or on the call, so the handler stays suspended at its await.
retrieve_unified_snippets_blocked(s) ==
  /\ tasks[s].pc = "embed"
  /\ tasks' = [tasks EXCEPT ![s] =
       [tasks[s] EXCEPT !.calls = Append(@, Call("embed", NoneVal, "ok")),
                        !.pc = "blocked"]]
  /\ UNCHANGED <<topics, CONSULTATION_STATE, CONSULTATION_CONTEXT, dbTokens>>
  /\ UNCHANGED <<turns_left, kbTables, sseVars>>

\* The task after the generation call returned reply r.
Generated(t, r) ==
  [t EXCEPT !.calls = Append(@, Call("generate", t.cat,
                                     IF t.skip THEN "skip_rag" ELSE RagSubcategory(t.cul))),
            !.reply = r, !.out = Append(@, "reply")]

\* --------------------------------------------------- handle_consultation_root
handle_consultation_root(s, u, inp) ==
  /\ Route(CONSULTATION_STATE[u], inp) = "handle_consultation_root"
  /\ Accept(s)
  /\ tasks' = [tasks EXCEPT ![s] =
                 StartTask("handle_consultation_root", u, "goc_select", "root_read")]
  /\ UNCHANGED <<topics, CONSULTATION_STATE, CONSULTATION_CONTEXT, dbTokens>>

handle_consultation_root_read(s) ==
  /\ tasks[s].pc = "root_read"
  /\ LET t == tasks[s]
         tp == topics[t.tid]
         fu == /\ tp.status = "open"
               /\ tp.culture # NoneVal
               /\ CONSULTATION_STATE[t.user] = Absent
               /\ get_topic_message_count(topics, t.tid) > 0
     IN tasks' = [tasks EXCEPT ![s] =
          [t EXCEPT !.fu = fu, !.cul = tp.culture, !.left0 = tp.left,
                    !.cat = IF tp.category \in {NoneVal, ""} THEN GENERAL_CONSULTATION
                            ELSE tp.category,
                    !.pc = "root_classify"]]
  /\ UNCHANGED <<topics, CONSULTATION_STATE, CONSULTATION_CONTEXT, dbTokens>>
  /\ UNCHANGED <<turns_left, kbTables, sseVars>>

EveryTurnConsumes(fu, changed) == TRUE
\* The quota is consumed by a follow-up that stayed on its topic.
consumes_follow_up(fu, changed) == fu /\ ~changed

\* From logging the user message to the next suspension point (or the end).
handle_consultation_root_branch(s, t, T) ==
  LET skip == t.fu /\ ~t.changed
      consumed == consumes_follow_up(t.fu, t.changed)
      T1 == log_message(T, t.tid, "user")
      T2 == IF consumed
            THEN [T1 EXCEPT ![t.tid].left = decrement_follow_up_questions(@)]
            ELSE T1
      t1 == [t EXCEPT !.dec = consumed]
  IN
  /\ topics' = T2
  /\ IF t.cul \in VagueCultures /\ ~skip THEN
       /\ tasks' = [tasks EXCEPT ![s] =
                      [t1 EXCEPT !.pc = "gen", !.k = "root_case1", !.skip = TRUE]]
       /\ UNCHANGED <<CONSULTATION_STATE, CONSULTATION_CONTEXT>>
     ELSE IF t.cul \in GeneralCultures /\ ~skip THEN
       /\ CONSULTATION_STATE' =
            [CONSULTATION_STATE EXCEPT ![t.user] = "waiting_variety_clarification"]
       /\ CONSULTATION_CONTEXT' =
            [CONSULTATION_CONTEXT EXCEPT ![t.user] = StoredContext(t.cat, t.cul, t.tid)]
       /\ tasks' = [tasks EXCEPT ![s] =
                      Finish([t1 EXCEPT !.out = Append(@, "variety_question")],
                             "variety_question")]
     ELSE
       /\ tasks' = [tasks EXCEPT ![s] =
                      [t1 EXCEPT !.pc = "embed", !.k = "root_case3", !.skip = FALSE]]
       /\ UNCHANGED <<CONSULTATION_STATE, CONSULTATION_CONTEXT>>

\* The detected category replaces the stored one.
root_followup_reclassified(t, new_category, new_culture) ==
  [t EXCEPT !.ncul = new_culture, !.cat = new_category, !.pc = "root_compare"]

\* Follow-up: the classification is used for the culture only, the
\* category stays the one read from the topic.
root_followup_classified(t, new_category, new_culture) ==
  [t EXCEPT !.ncul = new_culture, !.pc = "root_compare"]

handle_consultation_root_classified(s) ==
  /\ tasks[s].pc = "root_classify"
  /\ \E c \in ClassifiedCategories, k \in ClassifiedCultures :
       LET t == [tasks[s] EXCEPT !.calls = Append(@, Call("classify", NoneVal, NoneVal)),
                                 !.cls = k]
           cul == IF k # "" THEN k ELSE UNDETERMINED
       IN IF t.fu THEN
            /\ tasks' = [tasks EXCEPT ![s] = root_followup_classified(t, c, k)]
            /\ UNCHANGED <<topics, CONSULTATION_STATE, CONSULTATION_CONTEXT>>
          ELSE
            handle_consultation_root_branch(s, [t EXCEPT !.cat = c, !.cul = cul],
              set_topic_culture(set_topic_category(topics, t.tid, c), t.tid, cul))
  /\ UNCHANGED dbTokens
  /\ UNCHANGED <<turns_left, kbTables, sseVars>>

\* The words the normalisation of compare_topics_for_change looks for in the
\* model's reply, by reply.
DetectorReplies == {"same_topic", "clear_change", "unclear", "other"}
Contains(result, word) ==
  word \in (CASE result = "same_topic" -> {"same", "topic", "same_topic"}
              [] result = "clear_change" -> {"clear", "change", "clear_change"}
              [] result = "unclear" -> {"clear", "unclear"}
              [] OTHER -> {})

\* compare_topics_for_change: the decision from the model's reply, "unclear"
\* when the call raised.
compare_topics_for_change(failed, result) ==
  IF failed THEN "unclear"
  ELSE IF Contains(result, "same") \/ result = "same_topic" THEN "same_topic"
  ELSE IF Contains(result, "clear") \/ result = "clear_change" THEN "clear_change"
  ELSE "unclear"

\* Every decision but same_topic opens a new topic.
NotSameTopic(topic_change) == topic_change # "same_topic"

\* if topic_change == "clear_change"
creates_new_topic(topic_change) == topic_change = "clear_change"

handle_consultation_root_compared(s) ==
  /\ tasks[s].pc = "root_compare"
  /\ \E failed \in BOOLEAN, result \in DetectorReplies :
       LET d == compare_topics_for_change(failed, result)
           t == [tasks[s] EXCEPT !.calls =
                   Append(@, Call("compare", IF failed THEN "failed" ELSE "ok", d))]
       IN IF creates_new_topic(d) THEN
            /\ topics' = close_open_topics(topics, t.user)
            /\ tasks' = [tasks EXCEPT ![s] =
                 [t EXCEPT !.out = Append(@, "creating"),
                           !.pc = "goc_select", !.ret = "root_newtopic"]]
            /\ UNCHANGED <<CONSULTATION_STATE, CONSULTATION_CONTEXT>>
          ELSE handle_consultation_root_branch(s, t, topics)
  /\ UNCHANGED dbTokens
  /\ UNCHANGED <<turns_left, kbTables, sseVars>>

handle_consultation_root_newtopic(s) ==
  /\ tasks[s].pc = "root_newtopic"
  /\ LET t == tasks[s] IN
     handle_consultation_root_branch(s,
       [t EXCEPT !.cul = t.ncul, !.changed = TRUE],
       set_topic_culture(set_topic_category(topics, t.tid, t.cat), t.tid, t.ncul))
  /\ UNCHANGED dbTokens
  /\ UNCHANGED <<turns_left, kbTables, sseVars>>

FollowupCountMessage(T, id) ==
  IF T[id].left > 0 THEN "followup_count" ELSE "quota_exhausted"

handle_consultation_root_case1(s) ==
  /\ tasks[s].pc = "gen" /\ tasks[s].k = "root_case1"
  /\ \E r \in GenerationOutcomes :
       LET t == Generated(tasks[s], r) IN
       /\ topics' = log_message(topics, t.tid, "bot")
       /\ IF is_clarification_question(r) THEN
            /\ CONSULTATION_STATE' =
                 [CONSULTATION_STATE EXCEPT ![t.user] = "waiting_clarification_answer"]
            /\ CONSULTATION_CONTEXT' =
                 [CONSULTATION_CONTEXT EXCEPT ![t.user] = StoredContext(t.cat, t.cul, t.tid)]
            /\ tasks' = [tasks EXCEPT ![s] = Finish(t, "clarifying_question")]
          ELSE
            /\ tasks' = [tasks EXCEPT ![s] = Finish(t, "answer")]
            /\ UNCHANGED <<CONSULTATION_STATE, CONSULTATION_CONTEXT>>
  /\ UNCHANGED dbTokens
  /\ UNCHANGED <<turns_left, kbTables, sseVars>>

handle_consultation_root_case3(s) ==
  /\ tasks[s].pc = "gen" /\ tasks[s].k = "root_case3"
  /\ \E r \in GenerationOutcomes :
       LET t == Generated(tasks[s], r)
           msgs == IF t.cul \notin VagueCultures
                   THEN Append(t.out, FollowupCountMessage(topics, t.tid)) ELSE t.out
       IN
       /\ topics' = log_message(topics, t.tid, "bot")
       /\ tasks' = [tasks EXCEPT ![s] = Finish([t EXCEPT !.out = msgs], "answer")]
  /\ UNCHANGED <<CONSULTATION_STATE, CONSULTATION_CONTEXT, dbTokens>>
  /\ UNCHANGED <<turns_left, kbTables, sseVars>>

\* ------------------------------------------------------------ tokens_repo
has_sufficient_tokens(u, required) == token_balance[u] >= required

\* The balance check read by a plain SELECT, without FOR UPDATE.
deduct_tokens_select_unlocked(s) ==
  /\ tasks[s].pc = "ded_select"
  /\ LET t == tasks[s] IN
     /\ tasks' = [tasks EXCEPT ![s] =
          IF token_balance[t.user] < t.amount
          THEN [t EXCEPT !.ok = FALSE, !.pc = "ded_commit"]
          ELSE [t EXCEPT !.pc = "ded_update"]]
  /\ UNCHANGED <<topics, CONSULTATION_STATE, CONSULTATION_CONTEXT, dbTokens>>
  /\ UNCHANGED <<turns_left, kbTables, sseVars>>

\* token_balance[u] = NoRow: the users table holds no row with this id.
NoRow == 0 - 1

ChargedAnyway(row, amount) == FALSE

\* if not row or row["token_balance"] < amount: return False
insufficient(row, amount) == row = NoRow \/ row < amount

\* SELECT token_balance ... FOR UPDATE: waits for the row lock, then reads;
\* nothing is locked when there is no row.
deduct_tokens_select(s) ==
  /\ tasks[s].pc = "ded_select"
  /\ LET t == tasks[s]
         row == token_balance[t.user] IN
     /\ row = NoRow \/ row_lock[t.user] = 0
     /\ row_lock' = IF row = NoRow THEN row_lock ELSE [row_lock EXCEPT ![t.user] = s]
     /\ tasks' = [tasks EXCEPT ![s] =
          IF insufficient(row, t.amount)
          THEN [t EXCEPT !.ok = FALSE, !.pc = "ded_commit"]
          ELSE [t EXCEPT !.pc = "ded_update"]]
  /\ UNCHANGED <<topics, CONSULTATION_STATE, CONSULTATION_CONTEXT,
                 token_balance, token_transactions>>
  /\ UNCHANGED <<turns_left, kbTables, sseVars>>

\* UPDATE users SET token_balance = token_balance - amount: takes the row
\* lock if the transaction does not hold it yet; visible at commit.
deduct_tokens_update(s) ==
  /\ tasks[s].pc = "ded_update"
  /\ LET t == tasks[s] IN
     /\ row_lock[t.user] \in {0, s}
     /\ row_lock' = [row_lock EXCEPT ![t.user] = s]
     /\ tasks' = [tasks EXCEPT ![s] = [t EXCEPT !.pc = "ded_insert"]]
  /\ UNCHANGED <<topics, CONSULTATION_STATE, CONSULTATION_CONTEXT,
                 token_balance, token_transactions>>
  /\ UNCHANGED <<turns_left, kbTables, sseVars>>

\* INSERT INTO token_transactions, then return True.
deduct_tokens_insert(s) ==
  /\ tasks[s].pc = "ded_insert"
  /\ tasks' = [tasks EXCEPT ![s] = [tasks[s] EXCEPT !.ok = TRUE, !.pc = "ded_commit"]]
  /\ UNCHANGED <<topics, CONSULTATION_STATE, CONSULTATION_CONTEXT, dbTokens>>
  /\ UNCHANGED <<turns_left, kbTables, sseVars>>

\* The INSERT fails: the exception leaves the transaction block, which
\* rolls the UPDATE back, and deduct_tokens raises.
deduct_tokens_insert_raised(s) ==
  /\ tasks[s].pc = "ded_insert"
  /\ tasks' = [tasks EXCEPT ![s] =
                 [tasks[s] EXCEPT !.ok = FALSE, !.res = "raised", !.pc = "ded_commit"]]
  /\ UNCHANGED <<topics, CONSULTATION_STATE, CONSULTATION_CONTEXT, dbTokens>>
  /\ UNCHANGED <<turns_left, kbTables, sseVars>>

\* The end of the transaction block: commit, or rollback, and the return.
deduct_tokens_commit(s) ==
  /\ tasks[s].pc = "ded_commit"
  /\ LET t == tasks[s] IN
     /\ IF t.ok THEN
          /\ token_balance' = [token_balance EXCEPT ![t.user] = @ - t.amount]
          /\ token_transactions' =
               Append(token_transactions, [user |-> t.user, amount |-> 0 - t.amount])
        ELSE UNCHANGED <<token_balance, token_transactions>>
     /\ row_lock' = [row_lock EXCEPT ![t.user] = IF @ = s THEN 0 ELSE @]
     /\ tasks' = [tasks EXCEPT ![s] = [t EXCEPT !.pc = t.dret]]
  /\ UNCHANGED <<topics, CONSULTATION_STATE, CONSULTATION_CONTEXT>>
  /\ UNCHANGED <<turns_left, kbTables, sseVars>>

\* deduct_tokens(user_id, amount, ...) called on its own.
deduct_tokens(s, u, amount) ==
  /\ Accept(s)
  /\ tasks' = [tasks EXCEPT ![s] =
       [StartTask("deduct_tokens", u, "ded_select", "")
          EXCEPT !.amount = amount, !.dret = "done"]]
  /\ UNCHANGED <<topics, CONSULTATION_STATE, CONSULTATION_CONTEXT, dbTokens>>

\* add_tokens(user_id, amount): a credit by the administrator.
add_tokens(s, u, amount) ==
  /\ Accept(s)
  /\ tasks' = [tasks EXCEPT ![s] =
       [StartTask("add_tokens", u, "add_update", "") EXCEPT !.amount = amount]]
  /\ UNCHANGED <<topics, CONSULTATION_STATE, CONSULTATION_CONTEXT, dbTokens>>

\* UPDATE users SET token_balance = token_balance + amount RETURNING ...:
\* waits for the row lock; visible at commit.
add_tokens_update(s) ==
  /\ tasks[s].pc = "add_update"
  /\ LET t == tasks[s] IN
     /\ row_lock[t.user] = 0
     /\ row_lock' = [row_lock EXCEPT ![t.user] = s]
     /\ tasks' = [tasks EXCEPT ![s] = [t EXCEPT !.pc = "add_insert"]]
  /\ UNCHANGED <<topics, CONSULTATION_STATE, CONSULTATION_CONTEXT,
                 token_balance, token_transactions>>
  /\ UNCHANGED <<turns_left, kbTables, sseVars>>

\* INSERT INTO token_transactions and the end of the transaction.
add_tokens_insert(s) ==
  /\ tasks[s].pc = "add_insert"
  /\ LET t == tasks[s] IN
     /\ token_balance' = [token_balance EXCEPT ![t.user] = @ + t.amount]
     /\ token_transactions' =
          Append(token_transactions, [user |-> t.user, amount |-> t.amount])
     /\ row_lock' = [row_lock EXCEPT ![t.user] = 0]
     /\ tasks' = [tasks EXCEPT ![s] = Finish(t, "credited")]
  /\ UNCHANGED <<topics, CONSULTATION_STATE, CONSULTATION_CONTEXT>>
  /\ UNCHANGED <<turns_left, kbTables, sseVars>>

\* ---------------------------------------- handle_consultation_question_unified
handle_consultation_question_unified(s, u, inp) ==
  /\ Route(CONSULTATION_STATE[u], inp) = "handle_consultation_question_unified"
  /\ Accept(s)
  /\ tasks' = [tasks EXCEPT ![s] =
                 StartTask("handle_consultation_question_unified", u, "uni_check", "")]
  /\ UNCHANGED <<topics, CONSULTATION_STATE, CONSULTATION_CONTEXT, dbTokens>>

handle_consultation_question_unified_check(s) ==
  /\ tasks[s].pc = "uni_check"
  /\ LET t == tasks[s] IN
     IF ~has_sufficient_tokens(t.user, COST_NEW_TOPIC) THEN
       /\ CONSULTATION_STATE' = [CONSULTATION_STATE EXCEPT ![t.user] = Absent]
       /\ tasks' = [tasks EXCEPT ![s] =
            Finish([t EXCEPT !.out = Append(@, "insufficient_tokens")], "refused")]
     ELSE
       /\ tasks' = [tasks EXCEPT ![s] = [t EXCEPT !.pc = "uni_classify"]]
       /\ UNCHANGED CONSULTATION_STATE
  /\ UNCHANGED <<topics, CONSULTATION_CONTEXT, dbTokens>>
  /\ UNCHANGED <<turns_left, kbTables, sseVars>>

handle_consultation_question_unified_classified(s) ==
  /\ tasks[s].pc = "uni_classify"
  /\ \E c \in ClassifiedCategories, k \in ClassifiedCultures :
       tasks' = [tasks EXCEPT ![s] =
         [tasks[s] EXCEPT !.calls = Append(@, Call("classify", NoneVal, NoneVal)),
                          !.cat = c, !.cul = k, !.cls = k, !.amount = COST_NEW_TOPIC,
                          !.pc = "ded_select", !.dret = "goc_select",
                          !.ret = IF c = NUTRITION THEN "nutrition_start"
                                  ELSE "general_start"]]
  /\ UNCHANGED <<topics, CONSULTATION_STATE, CONSULTATION_CONTEXT, dbTokens>>
  /\ UNCHANGED <<turns_left, kbTables, sseVars>>

\* ------------------------------------------------ process_general_consultation
process_general_consultation(s) ==
  /\ tasks[s].pc = "general_start"
  /\ LET t == tasks[s]
         T == log_message(set_topic_culture(topics, t.tid, t.cul), t.tid, "user")
     IN
     /\ topics' = T
     /\ IF t.cul \in VagueCultures THEN
          /\ tasks' = [tasks EXCEPT ![s] =
               [t EXCEPT !.pc = "gen", !.k = "general_case1", !.skip = TRUE]]
          /\ UNCHANGED <<CONSULTATION_STATE, CONSULTATION_CONTEXT>>
        ELSE IF t.cul \in GeneralCultures THEN
          /\ CONSULTATION_STATE' =
               [CONSULTATION_STATE EXCEPT ![t.user] = "waiting_variety_clarification"]
          /\ CONSULTATION_CONTEXT' =
               [CONSULTATION_CONTEXT EXCEPT ![t.user] = StoredContext(t.cat, t.cul, t.tid)]
          /\ tasks' = [tasks EXCEPT ![s] =
               Finish([t EXCEPT !.out = Append(@, "variety_question")], "variety_question")]
        ELSE
          /\ tasks' = [tasks EXCEPT ![s] =
               [t EXCEPT !.pc = "embed", !.k = "general_case3", !.skip = FALSE]]
          /\ UNCHANGED <<CONSULTATION_STATE, CONSULTATION_CONTEXT>>
  /\ UNCHANGED dbTokens
  /\ UNCHANGED <<turns_left, kbTables, sseVars>>

process_general_consultation_case1(s) ==
  /\ tasks[s].pc = "gen" /\ tasks[s].k = "general_case1"
  /\ \E r \in GenerationOutcomes :
       LET t == Generated(tasks[s], r) IN
       /\ topics' = log_message(topics, t.tid, "bot")
       /\ IF is_clarification_question(r) THEN
            /\ CONSULTATION_STATE' =
                 [CONSULTATION_STATE EXCEPT ![t.user] = "waiting_clarification_answer"]
            /\ CONSULTATION_CONTEXT' =
                 [CONSULTATION_CONTEXT EXCEPT ![t.user] = StoredContext(t.cat, t.cul, t.tid)]
            /\ tasks' = [tasks EXCEPT ![s] = Finish(t, "clarifying_question")]
          ELSE
            /\ CONSULTATION_STATE' = [CONSULTATION_STATE EXCEPT ![t.user] = Absent]
            /\ CONSULTATION_CONTEXT' = [CONSULTATION_CONTEXT EXCEPT ![t.user] = NoCtx]
            /\ tasks' = [tasks EXCEPT ![s] = Finish(t, "answer")]
  /\ UNCHANGED dbTokens
  /\ UNCHANGED <<turns_left, kbTables, sseVars>>

process_general_consultation_case3(s) ==
  /\ tasks[s].pc = "gen" /\ tasks[s].k = "general_case3"
  /\ \E r \in GenerationOutcomes :
       LET t == Generated(tasks[s], r) IN
       /\ topics' = log_message(topics, t.tid, "bot")
       /\ CONSULTATION_STATE' = [CONSULTATION_STATE EXCEPT ![t.user] = Absent]
       /\ CONSULTATION_CONTEXT' = [CONSULTATION_CONTEXT EXCEPT ![t.user] = NoCtx]
       /\ tasks' = [tasks EXCEPT ![s] = Finish(t, "answer")]
  /\ UNCHANGED dbTokens
  /\ UNCHANGED <<turns_left, kbTables, sseVars>>

\* ---------------------------------------------- process_nutrition_consultation
\* Everything after the culture is known, shared by
\* process_nutrition_consultation and handle_nutrition_root: store the
\* context, then either ask the fixed cultivar-type question or call
\* ask_consultation_llm.
nutrition_branch(s, t, T) ==
  /\ topics' = T
  /\ CONSULTATION_CONTEXT' =
       [CONSULTATION_CONTEXT EXCEPT ![t.user] = StoredContext(t.cat, t.cul, t.tid)]
  /\ IF t.cul \in GeneralCultures THEN
       /\ CONSULTATION_STATE' =
            [CONSULTATION_STATE EXCEPT ![t.user] = "waiting_variety_clarification"]
       /\ tasks' = [tasks EXCEPT ![s] =
            Finish([t EXCEPT !.out = Append(@, "variety_question")], "variety_question")]
     ELSE
       /\ LET use_rag == t.cul \notin {GENERAL_INFO, UNDETERMINED, NoneVal} IN
          tasks' = [tasks EXCEPT ![s] =
            [t EXCEPT !.pc = IF use_rag THEN "embed" ELSE "gen",
                      !.skip = ~use_rag, !.k = "nutrition_answered"]]
       /\ UNCHANGED CONSULTATION_STATE

process_nutrition_consultation(s) ==
  /\ tasks[s].pc = "nutrition_start"
  /\ LET t == tasks[s] IN
     nutrition_branch(s, t,
       log_message(set_topic_culture(set_topic_category(topics, t.tid, t.cat),
                                     t.tid, t.cul), t.tid, "user"))
  /\ UNCHANGED dbTokens
  /\ UNCHANGED <<turns_left, kbTables, sseVars>>

\* An exception of moderation_add leaves the handler.
moderation_add_raised(t) == [t EXCEPT !.pc = "crashed", !.res = "moderation_add raised"]

\* The moderation_add call of the turn is going to fail.
moderation_add_fails(s) ==
  /\ tasks[s].pc = "gen" /\ ~tasks[s].mod
  /\ tasks' = [tasks EXCEPT ![s] = [tasks[s] EXCEPT !.mod = TRUE]]
  /\ UNCHANGED <<topics, CONSULTATION_STATE, CONSULTATION_CONTEXT, dbTokens>>
  /\ UNCHANGED <<turns_left, kbTables, sseVars>>

nutrition_answered(s) ==
  /\ tasks[s].pc = "gen" /\ tasks[s].k = "nutrition_answered"
  /\ \E r \in GenerationOutcomes, rejection \in BOOLEAN :
       LET t == Generated(tasks[s], r)
           clarification == t.skip /\ is_clarification_question(r)
       IN
       IF clarification THEN
         /\ CONSULTATION_STATE' =
              [CONSULTATION_STATE EXCEPT ![t.user] = "waiting_nutrition_clarification"]
         /\ topics' = log_message(topics, t.tid, "bot")
         /\ tasks' = [tasks EXCEPT ![s] = Finish(t, "clarifying_question")]
         /\ UNCHANGED CONSULTATION_CONTEXT
       ELSE IF CONSULTATION_CONTEXT[t.user] = NoCtx THEN
         \* KeyError on CONSULTATION_CONTEXT[id]["full_question"] = ...
         /\ tasks' = [tasks EXCEPT ![s] = [t EXCEPT !.pc = "crashed", !.res = "KeyError"]]
         /\ UNCHANGED <<topics, CONSULTATION_STATE, CONSULTATION_CONTEXT>>
       ELSE IF t.mod /\ ~rejection THEN
         \* await moderation_add(...) raises, after the state was set and
         \* the reply logged: the counter message is not sent.
         /\ CONSULTATION_CONTEXT' = [CONSULTATION_CONTEXT EXCEPT ![t.user].full = TRUE]
         /\ CONSULTATION_STATE' = [CONSULTATION_STATE EXCEPT ![t.user] = Absent]
         /\ topics' = log_message(topics, t.tid, "bot")
         /\ tasks' = [tasks EXCEPT ![s] = moderation_add_raised(t)]
       ELSE
         /\ CONSULTATION_CONTEXT' = [CONSULTATION_CONTEXT EXCEPT ![t.user].full = TRUE]
         /\ CONSULTATION_STATE' = [CONSULTATION_STATE EXCEPT ![t.user] = Absent]
         /\ topics' = log_message(topics, t.tid, "bot")
         /\ tasks' = [tasks EXCEPT ![s] =
              Finish([t EXCEPT !.out = IF rejection THEN @
                                       ELSE Append(@, FollowupCountMessage(topics, t.tid))],
                     "answer")]
  /\ UNCHANGED dbTokens
  /\ UNCHANGED <<turns_left, kbTables, sseVars>>

\* ------------------------------------------------------- handle_nutrition_root
handle_nutrition_root(s, u, inp) ==
  /\ Route(CONSULTATION_STATE[u], inp) = "handle_nutrition_root"
  /\ Accept(s)
  /\ tasks' = [tasks EXCEPT ![s] =
                 StartTask("handle_nutrition_root", u, "goc_select", "nutrition_root_start")]
  /\ UNCHANGED <<topics, CONSULTATION_STATE, CONSULTATION_CONTEXT, dbTokens>>

handle_nutrition_root_start(s) ==
  /\ tasks[s].pc = "nutrition_root_start"
  /\ LET t == [tasks[s] EXCEPT !.cat = NUTRITION, !.cul = topics[tasks[s].tid].culture]
         T == log_message(topics, t.tid, "user")
     IN IF get_topic_message_count(topics, t.tid) = 0 THEN
          /\ topics' = T
          /\ tasks' = [tasks EXCEPT ![s] = [t EXCEPT !.pc = "nutrition_root_classify"]]
          /\ UNCHANGED <<CONSULTATION_STATE, CONSULTATION_CONTEXT>>
        ELSE nutrition_branch(s, t, T)
  /\ UNCHANGED dbTokens
  /\ UNCHANGED <<turns_left, kbTables, sseVars>>

handle_nutrition_root_classified(s) ==
  /\ tasks[s].pc = "nutrition_root_classify"
  /\ \E k \in ClassifiedCultures :
       LET cul == IF k # "" /\ k # UNDETERMINED THEN k ELSE UNDETERMINED
           t == [tasks[s] EXCEPT !.calls = Append(@, Call("classify", NoneVal, NoneVal)),
                                 !.cul = cul, !.cls = k]
       IN nutrition_branch(s, t, set_topic_culture(topics, t.tid, cul))
  /\ UNCHANGED dbTokens
  /\ UNCHANGED <<turns_left, kbTables, sseVars>>

\* ---------------------------------------------- handle_nutrition_clarification
handle_nutrition_clarification(s, u, inp) ==
  /\ Route(CONSULTATION_STATE[u], inp) = "handle_nutrition_clarification"
  /\ Accept(s)
  /\ LET ctx == CONSULTATION_CONTEXT[u]
         t == StartTask("handle_nutrition_clarification", u, "nutrition_clar_classify", "")
     IN IF ctx = NoCtx THEN
          /\ CONSULTATION_STATE' = [CONSULTATION_STATE EXCEPT ![u] = Absent]
          /\ tasks' = [tasks EXCEPT ![s] = Finish(t, "silent")]
          /\ UNCHANGED topics
        ELSE
          /\ topics' = log_message(topics, ctx.topic_id, "user")
          /\ tasks' = [tasks EXCEPT ![s] =
               [t EXCEPT !.ctx = ctx, !.tid = ctx.topic_id, !.cat = ctx.category]]
          /\ UNCHANGED CONSULTATION_STATE
  /\ UNCHANGED <<CONSULTATION_CONTEXT, dbTokens>>

handle_nutrition_clarification_classified(s) ==
  /\ tasks[s].pc = "nutrition_clar_classify"
  /\ \E k \in ClassifiedCultures :
       LET t0 == tasks[s]
           ctx == [t0.ctx EXCEPT !.culture = k]
           t == [t0 EXCEPT !.calls = Append(@, Call("classify", COMBINED_TEXT, NoneVal)),
                           !.cul = k, !.cls = k, !.ctx = ctx]
       IN
       /\ topics' = set_topic_culture(topics, t.tid, k)
       /\ CONSULTATION_CONTEXT' = [CONSULTATION_CONTEXT EXCEPT ![t.user] = ctx]
       /\ IF k \in GeneralCultures THEN
            /\ CONSULTATION_STATE' =
                 [CONSULTATION_STATE EXCEPT ![t.user] = "waiting_variety_clarification"]
            /\ tasks' = [tasks EXCEPT ![s] =
                 Finish([t EXCEPT !.out = Append(@, "variety_question")],
                        "variety_question")]
          ELSE
            /\ tasks' = [tasks EXCEPT ![s] =
                 [t EXCEPT !.pc = "embed", !.skip = FALSE, !.k = "context_answered"]]
            /\ UNCHANGED CONSULTATION_STATE
  /\ UNCHANGED dbTokens
  /\ UNCHANGED <<turns_left, kbTables, sseVars>>

\* Tail shared by handle_nutrition_clarification and handle_variety_clarification.
context_answered(s) ==
  /\ tasks[s].pc = "gen" /\ tasks[s].k = "context_answered"
  /\ \E r \in GenerationOutcomes, rejection \in BOOLEAN :
       LET t == Generated(tasks[s], r)
           ctx == [t.ctx EXCEPT !.full = TRUE]
       IN
       /\ topics' = log_message(topics, t.tid, "bot")
       /\ IF t.mod /\ ~rejection THEN
            \* await moderation_add(...) raises: the counter message, the
            \* context update and the state reset are skipped.
            /\ tasks' = [tasks EXCEPT ![s] = moderation_add_raised(t)]
            /\ UNCHANGED <<CONSULTATION_STATE, CONSULTATION_CONTEXT>>
          ELSE
            /\ CONSULTATION_CONTEXT' = [CONSULTATION_CONTEXT EXCEPT ![t.user] = ctx]
            /\ CONSULTATION_STATE' = [CONSULTATION_STATE EXCEPT ![t.user] = Absent]
            /\ tasks' = [tasks EXCEPT ![s] =
                 Finish([t EXCEPT !.ctx = ctx,
                                  !.out = IF rejection THEN @
                                          ELSE Append(@, FollowupCountMessage(topics, t.tid))],
                        "answer")]
  /\ UNCHANGED dbTokens
  /\ UNCHANGED <<turns_left, kbTables, sseVars>>

\* ------------------------------------------------ handle_variety_clarification
HasAny(kw, words) == kw \cap words # {}

RemontantWords == {"remontant", "nsd_cyr", "nsd"}
StrawberrySummerWords == {"summer", "june", "ordinary", "traditional"}
RaspberrySummerWords == {"summer", "ordinary", "traditional"}

\* The keywords of the answer are not consulted.
NoKeywordVariety(old_culture, kw) == NoneVal

SummerFirstVariety(old_culture, kw) ==
  IF old_culture = STRAWBERRY_GENERAL THEN
    IF HasAny(kw, StrawberrySummerWords) THEN STRAWBERRY_SUMMER
    ELSE IF HasAny(kw, RemontantWords) THEN STRAWBERRY_REMONTANT
    ELSE NoneVal
  ELSE IF old_culture = RASPBERRY_GENERAL THEN
    IF HasAny(kw, RaspberrySummerWords) THEN RASPBERRY_SUMMER
    ELSE IF HasAny(kw, RemontantWords) THEN RASPBERRY_REMONTANT
    ELSE NoneVal
  ELSE NoneVal
\* The cultivar label fixed by the keywords of the answer; NoneVal when the
\* handler has to ask the classifier.
VarietyByKeyword(old_culture, kw) ==
  IF old_culture = STRAWBERRY_GENERAL THEN
    IF HasAny(kw, RemontantWords) THEN STRAWBERRY_REMONTANT
    ELSE IF HasAny(kw, StrawberrySummerWords) THEN STRAWBERRY_SUMMER
    ELSE NoneVal
  ELSE IF old_culture = RASPBERRY_GENERAL THEN
    IF HasAny(kw, RemontantWords) THEN RASPBERRY_REMONTANT
    ELSE IF HasAny(kw, RaspberrySummerWords) THEN RASPBERRY_SUMMER
    ELSE NoneVal
  ELSE NoneVal

\* set_topic_culture, context update and the start of ask_consultation_llm.
variety_resolved(s, t0, culture, T) ==
  LET ctx == [t0.ctx EXCEPT !.culture = culture]
      t == [t0 EXCEPT !.cul = culture, !.ctx = ctx]
  IN
  /\ topics' = set_topic_culture(T, t.tid, culture)
  /\ CONSULTATION_CONTEXT' = [CONSULTATION_CONTEXT EXCEPT ![t.user] = ctx]
  /\ tasks' = [tasks EXCEPT ![s] =
       [t EXCEPT !.pc = "embed", !.skip = FALSE, !.k = "context_answered"]]
  /\ UNCHANGED CONSULTATION_STATE

handle_variety_clarification(s, u, inp) ==
  /\ Route(CONSULTATION_STATE[u], inp) = "handle_variety_clarification"
  /\ Accept(s)
  /\ LET ctx == CONSULTATION_CONTEXT[u]
         t == [StartTask("handle_variety_clarification", u, "variety_classify", "")
                 EXCEPT !.kw = inp.kw, !.ctx = ctx, !.tid = ctx.topic_id,
                        !.cat = ctx.category]
     IN IF ctx = NoCtx THEN
          /\ CONSULTATION_STATE' = [CONSULTATION_STATE EXCEPT ![u] = Absent]
          /\ tasks' = [tasks EXCEPT ![s] = Finish(t, "silent")]
          /\ UNCHANGED <<topics, CONSULTATION_CONTEXT>>
        ELSE IF ctx.culture \in {NoneVal, ""} THEN
          /\ CONSULTATION_STATE' = [CONSULTATION_STATE EXCEPT ![u] = Absent]
          /\ CONSULTATION_CONTEXT' = [CONSULTATION_CONTEXT EXCEPT ![u] = NoCtx]
          /\ tasks' = [tasks EXCEPT ![s] = Finish(t, "silent")]
          /\ UNCHANGED topics
        ELSE IF VarietyByKeyword(ctx.culture, inp.kw) # NoneVal THEN
          variety_resolved(s, t, VarietyByKeyword(ctx.culture, inp.kw),
                           log_message(topics, ctx.topic_id, "user"))
        ELSE
          /\ topics' = log_message(topics, ctx.topic_id, "user")
          /\ tasks' = [tasks EXCEPT ![s] = t]
          /\ UNCHANGED <<CONSULTATION_STATE, CONSULTATION_CONTEXT>>
  /\ UNCHANGED dbTokens

handle_variety_clarification_classified(s) ==
  /\ tasks[s].pc = "variety_classify"
  /\ \E k \in ClassifiedCultures :
       LET t == [tasks[s] EXCEPT !.calls = Append(@, Call("classify", NoneVal, NoneVal)),
                                 !.cls = k]
           old == t.ctx.culture
           culture == IF old \in GeneralCultures /\ k \in VagueCultures THEN old ELSE k
       IN variety_resolved(s, t, culture, topics)
  /\ UNCHANGED dbTokens
  /\ UNCHANGED <<turns_left, kbTables, sseVars>>

\* --------------------------------------------------- handle_clarification_answer
handle_clarification_answer(s, u, inp) ==
  /\ Route(CONSULTATION_STATE[u], inp) = "handle_clarification_answer"
  /\ Accept(s)
  /\ LET ctx == CONSULTATION_CONTEXT[u]
         t == StartTask("handle_clarification_answer", u, "clar_classify", "")
     IN IF ctx = NoCtx THEN
          /\ tasks' = [tasks EXCEPT ![s] =
               Finish([t EXCEPT !.out = Append(@, "restart")], "restart")]
          /\ UNCHANGED topics
        ELSE
          /\ topics' = log_message(topics, ctx.topic_id, "user")
          /\ tasks' = [tasks EXCEPT ![s] = [t EXCEPT !.ctx = ctx, !.tid = ctx.topic_id]]
  /\ UNCHANGED <<CONSULTATION_STATE, CONSULTATION_CONTEXT, dbTokens>>

handle_clarification_answer_classified(s) ==
  /\ tasks[s].pc = "clar_classify"
  /\ \E k \in ClassifiedCultures :
       LET t == [tasks[s] EXCEPT !.calls = Append(@, Call("classify", COMBINED_TEXT, NoneVal)),
                                 !.cul = k, !.cls = k, !.cat = GENERAL_CONSULTATION]
       IN
       /\ topics' = set_topic_culture(topics, t.tid, k)
       /\ IF k \in VagueCultures THEN
            /\ tasks' = [tasks EXCEPT ![s] =
                 Finish([t EXCEPT !.out = Append(@, "which_culture")], "clarifying_question")]
            /\ UNCHANGED <<CONSULTATION_STATE, CONSULTATION_CONTEXT>>
          ELSE IF k \in GeneralCultures THEN
            /\ CONSULTATION_STATE' =
                 [CONSULTATION_STATE EXCEPT ![t.user] = "waiting_variety_clarification"]
            /\ IF CONSULTATION_CONTEXT[t.user] = NoCtx THEN
                 \* KeyError on CONSULTATION_CONTEXT[id]["culture"] = ...
                 /\ tasks' = [tasks EXCEPT ![s] =
                      [t EXCEPT !.pc = "crashed", !.res = "KeyError"]]
                 /\ UNCHANGED CONSULTATION_CONTEXT
               ELSE
                 /\ CONSULTATION_CONTEXT' =
                      [CONSULTATION_CONTEXT EXCEPT ![t.user].culture = k]
                 /\ tasks' = [tasks EXCEPT ![s] =
                      Finish([t EXCEPT !.out = Append(@, "variety_question")],
                             "variety_question")]
          ELSE
            /\ tasks' = [tasks EXCEPT ![s] =
                 [t EXCEPT !.pc = "embed", !.skip = FALSE, !.k = "clar_answered"]]
            /\ UNCHANGED <<CONSULTATION_STATE, CONSULTATION_CONTEXT>>
  /\ UNCHANGED dbTokens
  /\ UNCHANGED <<turns_left, kbTables, sseVars>>

handle_clarification_answer_answered(s) ==
  /\ tasks[s].pc = "gen" /\ tasks[s].k = "clar_answered"
  /\ \E r \in GenerationOutcomes :
       LET t == Generated(tasks[s], r) IN
       /\ topics' = log_message(topics, t.tid, "bot")
       /\ CONSULTATION_STATE' = [CONSULTATION_STATE EXCEPT ![t.user] = Absent]
       /\ CONSULTATION_CONTEXT' = [CONSULTATION_CONTEXT EXCEPT ![t.user] = NoCtx]
       /\ tasks' = [tasks EXCEPT ![s] = Finish(t, "answer")]
  /\ UNCHANGED dbTokens
  /\ UNCHANGED <<turns_left, kbTables, sseVars>>

\* ------------------------------------------------------------ menu and buttons
cmd_start(s, u, inp) ==
  /\ Route(CONSULTATION_STATE[u], inp) = "cmd_start"
  /\ Accept(s)
  /\ tasks' = [tasks EXCEPT ![s] = StartTask("cmd_start", u, "goc_select", "start_reply")]
  /\ UNCHANGED <<topics, CONSULTATION_STATE, CONSULTATION_CONTEXT, dbTokens>>

cmd_start_reply(s) ==
  /\ tasks[s].pc = "start_reply"
  /\ LET t == tasks[s] IN
     /\ topics' = log_message(log_message(topics, t.tid, "user"), t.tid, "bot")
     /\ CONSULTATION_STATE' = [CONSULTATION_STATE EXCEPT ![t.user] = Absent]
     /\ tasks' = [tasks EXCEPT ![s] =
          Finish([t EXCEPT !.out = Append(@, "welcome")], "menu")]
  /\ UNCHANGED <<CONSULTATION_CONTEXT, dbTokens>>
  /\ UNCHANGED <<turns_left, kbTables, sseVars>>

handle_consultation_button(s, u, inp) ==
  /\ Route(CONSULTATION_STATE[u], inp) = "handle_consultation_button"
  /\ Accept(s)
  /\ CONSULTATION_STATE' = [CONSULTATION_STATE EXCEPT ![u] = "waiting_category"]
  /\ tasks' = [tasks EXCEPT ![s] =
       Finish(StartTask("handle_consultation_button", u, "", ""), "menu")]
  /\ UNCHANGED <<topics, CONSULTATION_CONTEXT, dbTokens>>

handle_consultation_category(s, u, inp) ==
  /\ Route(CONSULTATION_STATE[u], inp) = "handle_consultation_category"
  /\ Accept(s)
  /\ CONSULTATION_STATE' = [CONSULTATION_STATE EXCEPT ![u] =
       IF inp.data = "consult_category:nutrition" THEN "waiting_nutrition_root"
       ELSE "waiting_root"]
  /\ tasks' = [tasks EXCEPT ![s] =
       Finish(StartTask("handle_consultation_category", u, "", ""), "menu")]
  /\ UNCHANGED <<topics, CONSULTATION_CONTEXT, dbTokens>>

handle_nutrition_new_topic(s, u, inp) ==
  /\ Route(CONSULTATION_STATE[u], inp) = "handle_nutrition_new_topic"
  /\ Accept(s)
  /\ topics' = close_open_topics(topics, u)
  /\ CONSULTATION_CONTEXT' = [CONSULTATION_CONTEXT EXCEPT ![u] = NoCtx]
  /\ CONSULTATION_STATE' = [CONSULTATION_STATE EXCEPT ![u] = "waiting_consultation_question"]
  /\ tasks' = [tasks EXCEPT ![s] =
       Finish(StartTask("handle_nutrition_new_topic", u, "", ""), "new_topic")]
  /\ UNCHANGED dbTokens

handle_new_topic_callback(s, u, inp) ==
  /\ Route(CONSULTATION_STATE[u], inp) = "handle_new_topic_callback"
  /\ Accept(s)
  /\ topics' = close_open_topics(topics, u)
  /\ CONSULTATION_CONTEXT' = [CONSULTATION_CONTEXT EXCEPT ![u] = NoCtx]
  /\ CONSULTATION_STATE' = [CONSULTATION_STATE EXCEPT ![u] = "waiting_consultation_question"]
  /\ tasks' = [tasks EXCEPT ![s] =
       Finish(StartTask("handle_new_topic_callback", u, "", ""), "new_topic")]
  /\ UNCHANGED dbTokens

\* ---------------------------------------------------- handle_get_more_questions
handle_get_more_questions(s, u, inp) ==
  /\ Route(CONSULTATION_STATE[u], inp) = "handle_get_more_questions"
  /\ Accept(s)
  /\ tasks' = [tasks EXCEPT ![s] = StartTask("handle_get_more_questions", u, "more_check", "")]
  /\ UNCHANGED <<topics, CONSULTATION_STATE, CONSULTATION_CONTEXT, dbTokens>>

handle_get_more_questions_check(s) ==
  /\ tasks[s].pc = "more_check"
  /\ LET t == tasks[s] IN
     tasks' = [tasks EXCEPT ![s] =
       IF ~has_sufficient_tokens(t.user, COST_ADDITIONAL_QUESTIONS)
       THEN Finish([t EXCEPT !.out = Append(@, "insufficient_tokens")], "refused")
       ELSE [t EXCEPT !.amount = COST_ADDITIONAL_QUESTIONS,
                      !.pc = "ded_select", !.dret = "more_paid"]]
  /\ UNCHANGED <<topics, CONSULTATION_STATE, CONSULTATION_CONTEXT, dbTokens>>
  /\ UNCHANGED <<turns_left, kbTables, sseVars>>

handle_get_more_questions_paid(s) ==
  /\ tasks[s].pc = "more_paid"
  /\ LET t == tasks[s] IN
     tasks' = [tasks EXCEPT ![s] =
       IF ~t.ok THEN Finish([t EXCEPT !.out = Append(@, "debit_failed")], "refused")
       ELSE [t EXCEPT !.pc = "goc_select", !.ret = "more_reset"]]
  /\ UNCHANGED <<topics, CONSULTATION_STATE, CONSULTATION_CONTEXT, dbTokens>>
  /\ UNCHANGED <<turns_left, kbTables, sseVars>>

handle_get_more_questions_reset(s) ==
  /\ tasks[s].pc = "more_reset"
  /\ LET t == tasks[s] IN
     /\ topics' = [topics EXCEPT ![t.tid].left = reset_follow_up_questions(@)]
     /\ tasks' = [tasks EXCEPT ![s] =
          Finish([t EXCEPT !.out = Append(@, "questions_granted")], "granted")]
  /\ UNCHANGED <<CONSULTATION_STATE, CONSULTATION_CONTEXT, dbTokens>>
  /\ UNCHANGED <<turns_left, kbTables, sseVars>>

\* ------------------------------------------------------------ specification
SeqUsers == {"u1"}

Dispatch(s, u, inp) ==
  \/ handle_consultation_root(s, u, inp)
  \/ handle_consultation_question_unified(s, u, inp)
  \/ handle_nutrition_root(s, u, inp)
  \/ handle_nutrition_clarification(s, u, inp)
  \/ handle_variety_clarification(s, u, inp)
  \/ handle_clarification_answer(s, u, inp)
  \/ cmd_start(s, u, inp)
  \/ handle_consultation_button(s, u, inp)
  \/ handle_consultation_category(s, u, inp)
  \/ handle_nutrition_new_topic(s, u, inp)
  \/ handle_new_topic_callback(s, u, inp)
  \/ handle_get_more_questions(s, u, inp)

Step(s) ==
  \/ get_or_create_open_topic_select(s)
  \/ get_or_create_open_topic_insert(s)
  \/ ask_consultation_llm_embed(s)
  \/ deduct_tokens_select(s)
  \/ deduct_tokens_update(s)
  \/ deduct_tokens_insert(s)
  \/ deduct_tokens_commit(s)
  \/ handle_consultation_root_read(s)
  \/ handle_consultation_root_classified(s)
  \/ handle_consultation_root_compared(s)
  \/ handle_consultation_root_newtopic(s)
  \/ handle_consultation_root_case1(s)
  \/ handle_consultation_root_case3(s)
  \/ handle_consultation_question_unified_check(s)
  \/ handle_consultation_question_unified_classified(s)
  \/ process_general_consultation(s)
  \/ process_general_consultation_case1(s)
  \/ process_general_consultation_case3(s)
  \/ process_nutrition_consultation(s)
  \/ nutrition_answered(s)
  \/ handle_nutrition_root_start(s)
  \/ handle_nutrition_root_classified(s)
  \/ handle_nutrition_clarification_classified(s)
  \/ context_answered(s)
  \/ handle_variety_clarification_classified(s)
  \/ handle_clarification_answer_classified(s)
  \/ handle_clarification_answer_answered(s)
  \/ cmd_start_reply(s)
  \/ handle_get_more_questions_check(s)
  \/ handle_get_more_questions_paid(s)
  \/ handle_get_more_questions_reset(s)

\* Turns of a user are handled one at a time, each to its end.
Next ==
  \/ \E u \in SeqUsers, inp \in Inputs : Dispatch(1, u, inp)
  \/ Step(1)

Spec == Init /\ [][Next]_vars

\* A conversation of free-text messages and quota purchases of one user,
\* long enough to use up a topic's follow-up quota.
FollowUpInputs ==
  {[kind |-> "text", kw |-> {}, data |-> ""],
   [kind |-> "callback", kw |-> {}, data |-> "get_more_followup_questions"]}

InitFollowUp == InitWith(MaxFollowUpTurns)

NextFollowUp ==
  \/ \E inp \in FollowUpInputs :
       \/ handle_consultation_root(1, "u1", inp)
       \/ handle_clarification_answer(1, "u1", inp)
       \/ handle_variety_clarification(1, "u1", inp)
       \/ handle_get_more_questions(1, "u1", inp)
  \/ get_or_create_open_topic_select(1)
  \/ get_or_create_open_topic_insert(1)
  \/ ask_consultation_llm_embed(1)
  \/ deduct_tokens_select(1)
  \/ deduct_tokens_update(1)
  \/ deduct_tokens_insert(1)
  \/ deduct_tokens_commit(1)
  \/ handle_consultation_root_read(1)
  \/ handle_consultation_root_classified(1)
  \/ handle_consultation_root_compared(1)
  \/ handle_consultation_root_newtopic(1)
  \/ handle_consultation_root_case1(1)
  \/ handle_consultation_root_case3(1)
  \/ handle_clarification_answer_classified(1)
  \/ handle_clarification_answer_answered(1)
  \/ handle_variety_clarification_classified(1)
  \/ context_answered(1)
  \/ handle_get_more_questions_check(1)
  \/ handle_get_more_questions_paid(1)
  \/ handle_get_more_questions_reset(1)

SpecFollowUp == InitFollowUp /\ [][NextFollowUp]_vars

\* Updates of one user handled as overlapping tasks (the dispatcher starts
\* a task per update and does not wait for the user's previous one), in the
\* nutrition consultation flow: category choice, first question, answer to
\* a clarifying question, and the "new topic" button.
ConcSlots == {1, 2}
ConcInputs ==
  {[kind |-> "text", kw |-> {}, data |-> ""],
   [kind |-> "callback", kw |-> {}, data |-> "consult_category:nutrition"],
   [kind |-> "callback", kw |-> {}, data |-> "new_consultation_topic"]}

LowestFree(s) == \A s2 \in ConcSlots : s2 < s => ~Free(s2)

InitConc == InitWith(MaxConcTurns)

NextConc ==
  \E s \in ConcSlots :
    \/ \E inp \in ConcInputs :
         LowestFree(s) /\ handle_consultation_category(s, "u1", inp)
    \/ \E inp \in ConcInputs :
         LowestFree(s) /\ handle_new_topic_callback(s, "u1", inp)
    \/ \E inp \in ConcInputs :
         LowestFree(s) /\ handle_nutrition_root(s, "u1", inp)
    \/ \E inp \in ConcInputs :
         LowestFree(s) /\ handle_nutrition_clarification(s, "u1", inp)
    \/ get_or_create_open_topic_select(s)
    \/ get_or_create_open_topic_insert(s)
    \/ ask_consultation_llm_embed(s)
    \/ handle_nutrition_root_start(s)
    \/ handle_nutrition_root_classified(s)
    \/ nutrition_answered(s)
    \/ handle_nutrition_clarification_classified(s)
    \/ context_answered(s)

SpecConc == InitConc /\ [][NextConc]_vars

\* Purchases of follow-up questions by one user handled as overlapping
\* tasks, together with credits by the administrator.
InitDebit == InitWith(MaxOps)

NextDebit ==
  \E s \in Slots :
    \/ handle_get_more_questions(s, "u1",
           [kind |-> "callback", kw |-> {}, data |-> "get_more_followup_questions"])
    \/ \E amount \in 1..MaxCredit : add_tokens(s, "u1", amount)
    \/ handle_get_more_questions_check(s)
    \/ handle_get_more_questions_paid(s)
    \/ handle_get_more_questions_reset(s)
    \/ deduct_tokens_select(s)
    \/ deduct_tokens_update(s)
    \/ deduct_tokens_insert(s)
    \/ deduct_tokens_commit(s)
    \/ add_tokens_update(s)
    \/ add_tokens_insert(s)
    \/ get_or_create_open_topic_select(s)
    \/ get_or_create_open_topic_insert(s)

SpecDebit == InitDebit /\ [][NextDebit]_vars

\* Calls of deduct_tokens for one user, overlapping, over a users table
\* that may lack the user's row and a balance that may not cover the
\* amount; the INSERT of the audit record may fail.
MaxAmount == 2
Balances == {NoRow} \cup (0..(MaxAmount + 1))

InitDeduct ==
  /\ topics = <<>>
  /\ CONSULTATION_STATE = [u \in Users |-> Absent]
  /\ CONSULTATION_CONTEXT = [u \in Users |-> NoCtx]
  /\ \E b \in Balances : token_balance = [u \in Users |-> IF u = "u1" THEN b ELSE NoRow]
  /\ token_transactions = <<>>
  /\ row_lock = [u \in Users |-> 0]
  /\ tasks = [s \in Slots |-> IdleTask]
  /\ turns_left = MaxOps
  /\ knowledge_base = {}
  /\ document_chunks = {}
  /\ NoStreams

NextDeduct ==
  \E s \in Slots :
    \/ \E amount \in 1..MaxAmount : deduct_tokens(s, "u1", amount)
    \/ deduct_tokens_select(s)
    \/ deduct_tokens_update(s)
    \/ deduct_tokens_insert(s)
    \/ deduct_tokens_insert_raised(s)
    \/ deduct_tokens_commit(s)

SpecDeduct == InitDeduct /\ [][NextDeduct]_vars

\* Turns of two users at the same time: each user's updates are handled
\* one after another, in a task of their own, while the other user's turn
\* is suspended at any of its awaits.
MaxUserTurns == 3
UserSlots == {1, 2}
UserOf(s) == IF s = 1 THEN "u1" ELSE "u2"
UserInputs ==
  {[kind |-> "text", kw |-> {}, data |-> ""],
   [kind |-> "callback", kw |-> {}, data |-> "new_consultation_topic"]}

InitUsers == InitWith(MaxUserTurns)

NextUsers ==
  \E s \in UserSlots :
    \/ \E inp \in UserInputs : handle_new_topic_callback(s, UserOf(s), inp)
    \/ \E inp \in UserInputs : handle_consultation_root(s, UserOf(s), inp)
    \/ get_or_create_open_topic_select(s)
    \/ get_or_create_open_topic_insert(s)
    \/ ask_consultation_llm_embed(s)
    \/ handle_consultation_root_read(s)
    \/ handle_consultation_root_classified(s)
    \/ handle_consultation_root_compared(s)
    \/ handle_consultation_root_newtopic(s)
    \/ handle_consultation_root_case1(s)
    \/ handle_consultation_root_case3(s)

SpecUsers == InitUsers /\ [][NextUsers]_vars

\* The turns of one user, one at a time, with moderation_add calls that
\* may fail.
InitModeration == InitWith(MaxTurns)

NextModeration ==
  \/ \E u \in SeqUsers, inp \in Inputs : Dispatch(1, u, inp)
  \/ Step(1)
  \/ moderation_add_fails(1)

SpecModeration == InitModeration /\ [][NextModeration]_vars

\* The turns of one user, one at a time, with a retriever query that may
\* never return; a handler that can take a step takes it.
InitTimeout == InitWith(MaxTurns)

NextTimeout ==
  \/ \E u \in SeqUsers, inp \in Inputs : Dispatch(1, u, inp)
  \/ Step(1)
  \/ retrieve_unified_snippets_blocked(1)

SpecTimeout == InitTimeout /\ [][NextTimeout]_vars /\ WF_vars(Step(1))

\* The same turns when every external call returns.
SpecReturns == Init /\ [][Next]_vars /\ WF_vars(Step(1))

\* New questions of one user after "new topic", handled as overlapping
\* tasks: the balance check, the classification, the debit and the answer.
AskInputs ==
  {[kind |-> "text", kw |-> {}, data |-> ""],
   [kind |-> "callback", kw |-> {}, data |-> "new_consultation_topic"]}

InitAsk == InitWith(MaxTurns)

NextAsk ==
  \E s \in ConcSlots :
    \/ \E inp \in AskInputs :
         LowestFree(s) /\ handle_new_topic_callback(s, "u1", inp)
    \/ \E inp \in AskInputs :
         LowestFree(s) /\ handle_consultation_question_unified(s, "u1", inp)
    \/ handle_consultation_question_unified_check(s)
    \/ handle_consultation_question_unified_classified(s)
    \/ deduct_tokens_select(s)
    \/ deduct_tokens_update(s)
    \/ deduct_tokens_insert(s)
    \/ deduct_tokens_commit(s)
    \/ get_or_create_open_topic_select(s)
    \/ get_or_create_open_topic_insert(s)
    \/ ask_consultation_llm_embed(s)
    \/ process_general_consultation(s)
    \/ process_general_consultation_case1(s)
    \/ process_general_consultation_case3(s)
    \/ process_nutrition_consultation(s)
    \/ nutrition_answered(s)

SpecAsk == InitAsk /\ [][NextAsk]_vars

\* ------------------------------------------------------------ SSEManager
\* The queue of a stream holds at most MaxQueue events (maxsize=100 in the
\* code); an awaited put on a full queue suspends until a get makes room.
MaxQueue == 3

botVars == <<topics, CONSULTATION_STATE, CONSULTATION_CONTEXT, dbTokens, tasks,
             turns_left, kbTables>>

full(q) == Len(q) >= MaxQueue

\* await client.queue.put(None) can complete.
put_completes(q) == ~full(q)

\* live_feed_stream up to its loop: the queue is created and the client
\* registered.
add_client(c) ==
  /\ stream[c] = "none"
  /\ clients' = clients \cup {c}
  /\ queue' = [queue EXCEPT ![c] = <<>>]
  /\ last_heartbeat' = [last_heartbeat EXCEPT ![c] = "recent"]
  /\ stream' = [stream EXCEPT ![c] = "get"]
  /\ UNCHANGED <<cleanup, botVars>>

\* broadcast: the event is put on the queue of every client whose queue
\* holds fewer than the maximum, and dropped for the others.
broadcast ==
  /\ clients # {}
  /\ queue' = [c \in SSEClients |->
                 IF c \in clients /\ ~full(queue[c]) THEN Append(queue[c], "event")
                 ELSE queue[c]]
  /\ UNCHANGED <<clients, last_heartbeat, stream, cleanup, botVars>>

\* _heartbeat_loop, one round: as broadcast, and the time of the last
\* heartbeat is set for the clients whose queue took it.
heartbeat_loop ==
  /\ clients # {}
  /\ queue' = [c \in SSEClients |->
                 IF c \in clients /\ ~full(queue[c]) THEN Append(queue[c], "heartbeat")
                 ELSE queue[c]]
  /\ last_heartbeat' = [c \in SSEClients |->
                 IF c \in clients /\ ~full(queue[c]) THEN "recent"
                 ELSE last_heartbeat[c]]
  /\ UNCHANGED <<clients, stream, cleanup, botVars>>

\* More than 90 seconds pass in which every heartbeat found the queue of
\* c full.
heartbeats_missed(c) ==
  /\ c \in clients /\ full(queue[c]) /\ last_heartbeat[c] = "recent"
  /\ last_heartbeat' = [last_heartbeat EXCEPT ![c] = "old"]
  /\ UNCHANGED <<clients, queue, stream, cleanup, botVars>>

\* event = await queue.get(): None ends the loop.
live_feed_stream_get(c) ==
  /\ stream[c] = "get" /\ queue[c] # <<>>
  /\ queue' = [queue EXCEPT ![c] = Tail(@)]
  /\ stream' = [stream EXCEPT ![c] = IF Head(queue[c]) = "None" THEN "finally" ELSE "send"]
  /\ UNCHANGED <<clients, last_heartbeat, cleanup, botVars>>

\* await send_sse_event(...) returns, when the client has read the data.
live_feed_stream_sent(c) ==
  /\ stream[c] = "send"
  /\ stream' = [stream EXCEPT ![c] = "get"]
  /\ UNCHANGED <<clients, queue, last_heartbeat, cleanup, botVars>>

\* The handler is cancelled at one of its awaits (the client disconnected,
\* the server shuts down).
live_feed_stream_cancelled(c) ==
  /\ stream[c] \in {"get", "send"}
  /\ stream' = [stream EXCEPT ![c] = "finally"]
  /\ UNCHANGED <<clients, queue, last_heartbeat, cleanup, botVars>>

\* finally: await sse_manager.remove_client(client_id).  The put of the
\* signal suspends on a full queue, and the handler being the only reader
\* of its queue, nothing resumes it.
live_feed_stream_finally(c) ==
  /\ stream[c] = "finally"
  /\ IF c \notin clients THEN
       /\ stream' = [stream EXCEPT ![c] = "closed"]
       /\ UNCHANGED <<clients, queue>>
     ELSE IF put_completes(queue[c]) THEN
       /\ queue' = [queue EXCEPT ![c] = Append(@, "None")]
       /\ clients' = clients \ {c}
       /\ stream' = [stream EXCEPT ![c] = "closed"]
     ELSE
       /\ stream' = [stream EXCEPT ![c] = "put"]
       /\ UNCHANGED <<clients, queue>>
  /\ UNCHANGED <<last_heartbeat, cleanup, botVars>>

\* _cleanup_loop after its sleep: the clients whose last heartbeat is old.
cleanup_loop_scan ==
  /\ cleanup = [pending |-> {}, at |-> ""]
  /\ \E c \in clients : last_heartbeat[c] = "old"
  /\ cleanup' = [cleanup EXCEPT !.pending = {c \in clients : last_heartbeat[c] = "old"}]
  /\ UNCHANGED <<clients, queue, last_heartbeat, stream, botVars>>

\* await self.remove_client(client_id) for the next inactive client.
cleanup_loop_remove(c) ==
  /\ cleanup.at = "" /\ c \in cleanup.pending
  /\ IF c \notin clients THEN
       /\ cleanup' = [cleanup EXCEPT !.pending = @ \ {c}]
       /\ UNCHANGED <<clients, queue>>
     ELSE IF put_completes(queue[c]) THEN
       /\ queue' = [queue EXCEPT ![c] = Append(@, "None")]
       /\ clients' = clients \ {c}
       /\ cleanup' = [cleanup EXCEPT !.pending = @ \ {c}]
     ELSE
       /\ cleanup' = [cleanup EXCEPT !.at = c]
       /\ UNCHANGED <<clients, queue>>
  /\ UNCHANGED <<last_heartbeat, stream, botVars>>

\* The suspended put resumes when the stream handler has taken an event;
\* del self.clients[client_id] raises KeyError if the handler removed the
\* client in between, which ends this round of the loop.
cleanup_loop_put(c) ==
  /\ cleanup.at = c /\ ~full(queue[c])
  /\ queue' = [queue EXCEPT ![c] = Append(@, "None")]
  /\ clients' = clients \ {c}
  /\ cleanup' = IF c \in clients THEN [pending |-> cleanup.pending \ {c}, at |-> ""]
                ELSE [pending |-> {}, at |-> ""]
  /\ UNCHANGED <<last_heartbeat, stream, botVars>>

InitSSE == InitWith(0)

NextSSE ==
  \/ \E c \in SSEClients : add_client(c)
  \/ broadcast
  \/ heartbeat_loop
  \/ \E c \in SSEClients : heartbeats_missed(c)
  \/ \E c \in SSEClients : live_feed_stream_get(c)
  \/ \E c \in SSEClients : live_feed_stream_sent(c)
  \/ \E c \in SSEClients : live_feed_stream_cancelled(c)
  \/ \E c \in SSEClients : live_feed_stream_finally(c)
  \/ cleanup_loop_scan
  \/ \E c \in SSEClients : cleanup_loop_remove(c)
  \/ \E c \in SSEClients : cleanup_loop_put(c)

\* The event loop runs every coroutine that can go on; when a client reads
\* what is written to it is up to the client.
SpecSSE ==
  /\ InitSSE /\ [][NextSSE]_vars
  /\ \A c \in SSEClients :
       /\ WF_vars(live_feed_stream_get(c))
       /\ WF_vars(live_feed_stream_finally(c))
       /\ WF_vars(cleanup_loop_remove(c))
       /\ WF_vars(cleanup_loop_put(c))

\* ------------------------------------------------------------- classifier
\* A question text is the set of words it is made of; a word is known by
\* the substrings the classifier tests for.  Words of the vocabulary:
\*   strawberry "клубника", raspberry "малина", blueberry "голубика",
\*   summer "летняя", june "июньская", ordinary "обычная",
\*   traditional "традиционная", remontant "ремонтантная", nsd_cyr "нсд",
\*   neutral "нейтрального", berry "ягоды", bush "куст", shrub "кустарник",
\*   albion "альбион", gusar "гусар", feeding "питание", planting "посадка".
\* runner is the substring "ус": no word of its own, but part of "куст",
\* "кустарник" and "гусар".
MaxWords == 3

Words ==
  {"strawberry", "raspberry", "blueberry", "summer", "june", "ordinary",
   "traditional", "remontant", "nsd_cyr", "neutral", "berry", "bush", "shrub",
   "albion", "gusar", "feeding", "planting"}

Substrings(word) ==
  CASE word = "bush" -> {"bush", "runner"}
    [] word = "shrub" -> {"shrub", "bush", "runner"}
    [] word = "gusar" -> {"gusar", "runner"}
    [] OTHER -> {word}

Texts == {text \in SUBSET Words : Cardinality(text) <= MaxWords}

\* `stem in text`
In(stem, text) == \E word \in text : stem \in Substrings(word)

CATEGORY_UNDETERMINED == "category undetermined"   \* "не определена"

\* The candidate labels _keyword_fallback collects.  Stems the vocabulary
\* has no word for ("фриго", "виктори", "поросл", "вересков", the other
\* cultivar names, "смородин", "жимолост", "крыжовник", "ежевик", "nsd")
\* are never found and are left out.
candidates(text) ==
  (IF In("runner", text) THEN {STRAWBERRY_GENERAL} ELSE {})
  \cup (IF In("albion", text) THEN {STRAWBERRY_REMONTANT} ELSE {})
  \cup (IF In("gusar", text) THEN {RASPBERRY_SUMMER} ELSE {})
  \cup (IF In("strawberry", text)
          THEN IF In("summer", text) \/ In("traditional", text)
                  \/ In("ordinary", text) \/ In("june", text)
                 THEN {STRAWBERRY_SUMMER}
               ELSE IF In("remontant", text) \/ In("nsd_cyr", text)
                       \/ In("neutral", text)
                 THEN {STRAWBERRY_REMONTANT}
               ELSE {STRAWBERRY_GENERAL}
          ELSE {})
  \cup (IF In("raspberry", text)
          THEN IF In("summer", text) \/ In("traditional", text)
                  \/ In("ordinary", text)
                 THEN {RASPBERRY_SUMMER}
               ELSE IF In("remontant", text) \/ In("nsd_cyr", text)
                 THEN {RASPBERRY_REMONTANT}
               ELSE {RASPBERRY_GENERAL}
          ELSE {})
  \cup (IF In("blueberry", text) THEN {BLUEBERRY} ELSE {})

has_culture_word(text) ==
  In("strawberry", text) \/ In("raspberry", text) \/ In("blueberry", text)

FirstCandidate(raw_text) ==
  IF candidates(raw_text) = {} THEN UNDETERMINED
  ELSE CHOOSE c \in candidates(raw_text) : TRUE

_keyword_fallback(raw_text) ==
  IF raw_text = {} THEN UNDETERMINED
  ELSE IF ~has_culture_word(raw_text)
          /\ (In("remontant", raw_text) \/ In("nsd_cyr", raw_text)
              \/ In("summer", raw_text) \/ In("ordinary", raw_text)
              \/ In("traditional", raw_text))
    THEN GENERAL_INFO
  ELSE IF Cardinality(candidates(raw_text)) > 1 THEN GENERAL_INFO
  ELSE IF Cardinality(candidates(raw_text)) = 1
    THEN CHOOSE c \in candidates(raw_text) : TRUE
  ELSE IF In("berry", raw_text) \/ In("shrub", raw_text) \/ In("bush", raw_text)
    THEN GENERAL_INFO
  ELSE UNDETERMINED

_keyword_category_fallback(raw_text) ==
  IF raw_text = {} THEN CATEGORY_UNDETERMINED
  ELSE IF In("feeding", raw_text) THEN NUTRITION
  ELSE IF In("planting", raw_text) THEN PLANTING
  ELSE CATEGORY_UNDETERMINED

\* What the model provider hands back to a classifier call: an exception
\* ("error": network, provider, missing usage fields), an empty content,
\* a content that is not JSON, JSON whose fields cannot be read
\* ("not object": a list, a null field), or an answer naming a culture
\* (and, for detect_category_and_culture, a category).
\* Answers: "strawberry ordinary" "клубника обычная", "strawberry june"
\* "клубника июньская", "strawberry" "клубника", "**raspberry**"
\* "**Малина**", "apple tree" "яблоня".
LlmCultures ==
  {STRAWBERRY_REMONTANT, "strawberry ordinary", "strawberry june", "strawberry",
   "**raspberry**", BLUEBERRY, "apple tree", GENERAL_INFO, UNDETERMINED, "???"}
LlmCategories == {NUTRITION, PLANTING, "weather"}

CultureNameReplies ==
  [kind : {"error", "empty"}, culture : {""}, category : {""}]
    \cup [kind : {"text"}, culture : LlmCultures, category : {""}]
CategoryAndCultureReplies ==
  [kind : {"error", "empty", "not json", "not object"}, culture : {""}, category : {""}]
    \cup [kind : {"json"}, culture : LlmCultures \cup {""}, category : LlmCategories]

_cleanup_llm_answer(raw) ==
  CASE raw = "**raspberry**" -> "raspberry"
    [] raw = "???" -> ""
    [] OTHER -> raw

\* The mapping keys that are substrings of an answer.
Phrases(answer) ==
  {answer}
    \cup (IF answer \in {STRAWBERRY_REMONTANT, STRAWBERRY_SUMMER, STRAWBERRY_GENERAL,
                         "strawberry ordinary", "strawberry june"}
            THEN {"strawberry"} ELSE {})
    \cup (IF answer \in {RASPBERRY_REMONTANT, RASPBERRY_SUMMER, RASPBERRY_GENERAL}
            THEN {"raspberry"} ELSE {})

\* for key, value in items: if key in answer: take value and stop
FirstKeyIn(items, answer) ==
  LET hits == {i \in 1..Len(items) : items[i][1] \in Phrases(answer)}
  IN IF hits = {} THEN answer
     ELSE items[CHOOSE i \in hits : \A j \in hits : i <= j][2]

mapping(normalized) ==
  FirstKeyIn(<< <<STRAWBERRY_REMONTANT, STRAWBERRY_REMONTANT>>,
                <<STRAWBERRY_SUMMER, STRAWBERRY_SUMMER>>,
                <<"strawberry ordinary", STRAWBERRY_SUMMER>>,
                <<"strawberry june", STRAWBERRY_SUMMER>>,
                <<"strawberry", STRAWBERRY_GENERAL>>,
                <<RASPBERRY_REMONTANT, RASPBERRY_REMONTANT>>,
                <<RASPBERRY_SUMMER, RASPBERRY_SUMMER>>,
                <<"raspberry", RASPBERRY_GENERAL>>,
                <<BLUEBERRY, BLUEBERRY>>,
                <<GENERAL_INFO, GENERAL_INFO>>,
                <<UNDETERMINED, UNDETERMINED>> >>, normalized)

culture_mapping(culture) ==
  FirstKeyIn(<< <<STRAWBERRY_REMONTANT, STRAWBERRY_REMONTANT>>,
                <<STRAWBERRY_SUMMER, STRAWBERRY_SUMMER>>,
                <<"strawberry ordinary", STRAWBERRY_SUMMER>>,
                <<STRAWBERRY_GENERAL, STRAWBERRY_GENERAL>>,
                <<"strawberry", STRAWBERRY_GENERAL>>,
                <<RASPBERRY_REMONTANT, RASPBERRY_REMONTANT>>,
                <<RASPBERRY_SUMMER, RASPBERRY_SUMMER>>,
                <<RASPBERRY_GENERAL, RASPBERRY_GENERAL>>,
                <<"raspberry", RASPBERRY_GENERAL>>,
                <<BLUEBERRY, BLUEBERRY>>,
                <<GENERAL_INFO, GENERAL_INFO>>,
                <<UNDETERMINED, UNDETERMINED>> >>, culture)

category_mapping(category_raw) ==
  IF category_raw \in {NUTRITION, PLANTING} THEN category_raw ELSE CATEGORY_UNDETERMINED

\* detect_culture_name once the model provider has replied.
detect_culture_name(raw_text, reply) ==
  IF reply.kind \in {"error", "empty"} THEN _keyword_fallback(raw_text)
  ELSE
    LET normalized == _cleanup_llm_answer(reply.culture)
        keyword_culture == _keyword_fallback(raw_text)
        mapped == mapping(normalized)
        culture == IF mapped \in VagueCultures /\ keyword_culture \notin VagueCultures
                     THEN keyword_culture ELSE mapped
    IN IF normalized \in VagueCultures
         THEN IF keyword_culture \notin VagueCultures THEN keyword_culture
              ELSE normalized
       ELSE IF culture # "" /\ culture \notin VagueCultures THEN culture
       ELSE keyword_culture

KeywordAlways(culture, keyword_culture) == keyword_culture

\* The choice between the model's culture and the heuristic's.
keyword_override(culture, keyword_culture) ==
  IF culture \in VagueCultures \cup {""}
    THEN IF keyword_culture \notin VagueCultures THEN keyword_culture ELSE culture
  ELSE IF keyword_culture \notin VagueCultures \cup {culture} THEN keyword_culture
  ELSE culture

\* detect_category_and_culture once the model provider has replied.
detect_category_and_culture(raw_text, reply) ==
  IF reply.kind # "json"
    THEN [category |-> _keyword_category_fallback(raw_text),
          culture |-> _keyword_fallback(raw_text)]
  ELSE [category |-> category_mapping(reply.category),
        culture |-> keyword_override(culture_mapping(_cleanup_llm_answer(reply.culture)),
                                     _keyword_fallback(raw_text))]

\* ---- classifier calls: one task per call, kw the text, k the kind of the
\* model's reply, ncul the model's culture after normalisation, cat and cls
\* the pair returned; a call that raised ends "crashed".
ClassifierFunctions ==
  {"_keyword_fallback", "detect_culture_name", "detect_category_and_culture"}

keyword_fallback_call(s) ==
  /\ tasks[s].h = "_keyword_fallback" /\ tasks[s].pc = "called"
  /\ tasks' = [tasks EXCEPT ![s] = [@ EXCEPT !.cls = _keyword_fallback(tasks[s].kw),
                                             !.res = "returned", !.pc = "done"]]
  /\ UNCHANGED <<topics, CONSULTATION_STATE, CONSULTATION_CONTEXT, dbTokens, turns_left, kbTables, sseVars>>

\* db_cultures = await kb_get_distinct_subcategories(limit=200), ahead of
\* the try block: an exception of the pool or the query leaves the function.
kb_get_distinct_subcategories(s) ==
  /\ tasks[s].h \in {"detect_culture_name", "detect_category_and_culture"}
  /\ tasks[s].pc = "called"
  /\ \E raised \in BOOLEAN :
       tasks' = [tasks EXCEPT ![s] =
                   IF raised THEN [@ EXCEPT !.res = "raised", !.pc = "crashed"]
                   ELSE [@ EXCEPT !.pc = "prompted"]]
  /\ UNCHANGED <<topics, CONSULTATION_STATE, CONSULTATION_CONTEXT, dbTokens, turns_left, kbTables, sseVars>>

detect_culture_name_replied(s) ==
  /\ tasks[s].h = "detect_culture_name" /\ tasks[s].pc = "prompted"
  /\ \E reply \in CultureNameReplies :
       tasks' = [tasks EXCEPT ![s] =
                   [@ EXCEPT !.k = reply.kind,
                             !.ncul = mapping(_cleanup_llm_answer(reply.culture)),
                             !.cls = detect_culture_name(tasks[s].kw, reply),
                             !.res = "returned", !.pc = "done"]]
  /\ UNCHANGED <<topics, CONSULTATION_STATE, CONSULTATION_CONTEXT, dbTokens, turns_left, kbTables, sseVars>>

detect_category_and_culture_replied(s) ==
  /\ tasks[s].h = "detect_category_and_culture" /\ tasks[s].pc = "prompted"
  /\ \E reply \in CategoryAndCultureReplies :
       tasks' = [tasks EXCEPT ![s] =
                   [@ EXCEPT !.k = reply.kind,
                             !.ncul = culture_mapping(_cleanup_llm_answer(reply.culture)),
                             !.cat = detect_category_and_culture(tasks[s].kw, reply).category,
                             !.cls = detect_category_and_culture(tasks[s].kw, reply).culture,
                             !.res = "returned", !.pc = "done"]]
  /\ UNCHANGED <<topics, CONSULTATION_STATE, CONSULTATION_CONTEXT, dbTokens, turns_left, kbTables, sseVars>>

InitClassify ==
  /\ topics = <<>>
  /\ CONSULTATION_STATE = [u \in Users |-> Absent]
  /\ CONSULTATION_CONTEXT = [u \in Users |-> NoCtx]
  /\ token_balance = [u \in Users |-> InitBalance]
  /\ token_transactions = <<>>
  /\ row_lock = [u \in Users |-> 0]
  /\ turns_left = 0
  /\ knowledge_base = {}
  /\ document_chunks = {}
  /\ NoStreams
  /\ \E fn \in ClassifierFunctions, text \in Texts :
       tasks = [s \in Slots |->
                  IF s = 1 THEN [IdleTask EXCEPT !.h = fn, !.pc = "called", !.kw = text]
                  ELSE IdleTask]

NextClassify ==
  \/ \E s \in Slots : keyword_fallback_call(s)
  \/ \E s \in Slots : kb_get_distinct_subcategories(s)
  \/ \E s \in Slots : detect_culture_name_replied(s)
  \/ \E s \in Slots : detect_category_and_culture_replied(s)

SpecClassify == InitClassify /\ [][NextClassify]_vars

\* ================================================================== claims
Ended(t) == t.pc = "done"
Ops(t) == {t.calls[i].op : i \in 1..Len(t.calls)}
Specific(c) == c \notin VagueCultures \cup GeneralCultures \cup {"", NoneVal}

\* The turn ran the classifier on the first message of a conversation.
FirstMessage(t) ==
  /\ t.cls # NoneVal
  /\ \/ t.h = "handle_consultation_root" /\ ~t.fu
     \/ t.h = "handle_consultation_question_unified"
     \/ t.h = "handle_nutrition_root"

AwaitingRootQuestion ==
  {"waiting_root", "waiting_nutrition_root", "waiting_consultation_question"}
AwaitingClarificationAnswer ==
  {"waiting_clarification_answer", "waiting_nutrition_clarification"}
AwaitingCultivarType == "waiting_variety_clarification"

JudgedClarifying(r) == r.len < CLARIFICATION_MAX_LEN /\ (r.q \/ r.phrase)

\* The generation call of the turn was made with retrieval skipped.
GeneratedWithoutRetrieval(t) ==
  /\ \E i \in 1..Len(t.calls) :
       t.calls[i].op = "generate" /\ t.calls[i].subcategory = "skip_rag"
  /\ Ops(t) \cap {"embed", "retrieve"} = {}

\* The retrieval stage ran before the generation call of the turn; the
\* retriever itself is called once the query embedding is obtained.
RetrievedBeforeGeneration(t, category, subcategory) ==
  \E g \in 1..Len(t.calls) :
    /\ t.calls[g].op = "generate" /\ t.calls[g].subcategory # "skip_rag"
    /\ \E e \in 1..(g - 1) :
         /\ t.calls[e].op = "embed"
         /\ t.calls[e].subcategory = "ok" =>
              /\ e + 1 < g
              /\ t.calls[e + 1] = Call("retrieve", category, subcategory)

QuotaUnchanged(t) ==
  \A i \in 1..Len(topics) :
    topics[i].left = IF i <= Len(t.lefts) THEN t.lefts[i] ELSE FOLLOW_UP_QUOTA

QuotaDecreased(t) == \E i \in 1..Len(t.lefts) : topics[i].left < t.lefts[i]

\* C5: a turn in which the bot asks a clarifying question or the fixed
\* summer/remontant question leaves every topic's follow-up quota as it was,
\* so does a first message naming no plant, and a quota is only ever lower
\* after a turn than before it when the turn was a follow-up on its topic
\* that ended with an answer.
C5_QuotaFrame ==
  \A s \in Slots :
    LET t == tasks[s] IN
    Ended(t) =>
      /\ t.res \in {"clarifying_question", "variety_question"} => QuotaUnchanged(t)
      /\ (FirstMessage(t) /\ t.cls \in VagueCultures) => QuotaUnchanged(t)
      /\ QuotaDecreased(t) =>
           /\ t.h = "handle_consultation_root" /\ t.st0 = Absent
           /\ t.fu /\ ~t.changed /\ t.res = "answer"

C5_Witness ==
  \E s \in Slots :
    LET t == tasks[s] IN
    /\ Ended(t) /\ t.res = "clarifying_question" /\ Len(t.lefts) > 0
    /\ FirstMessage(t) /\ t.cls \in VagueCultures /\ QuotaUnchanged(t)

C8_GeneralFirstMessage ==
  \A s \in Slots :
    LET t == tasks[s] IN
    (Ended(t) /\ FirstMessage(t) /\ t.cls \in GeneralCultures) =>
      /\ t.out = <<"variety_question">>
      /\ Ops(t) \cap {"embed", "retrieve", "generate"} = {}
      /\ CONSULTATION_STATE[t.user] = AwaitingCultivarType
      /\ CONSULTATION_CONTEXT[t.user] # NoCtx
      /\ CONSULTATION_CONTEXT[t.user].culture = t.cls
      /\ CONSULTATION_CONTEXT[t.user].category = t.cat
      /\ CONSULTATION_CONTEXT[t.user].topic_id = t.tid

C8_Witness ==
  \E s \in Slots :
    LET t == tasks[s] IN
    /\ Ended(t) /\ FirstMessage(t) /\ t.cls = RASPBERRY_GENERAL
    /\ t.h = "handle_consultation_root"
    /\ CONSULTATION_STATE[t.user] = AwaitingCultivarType
    /\ CONSULTATION_CONTEXT[t.user].culture = RASPBERRY_GENERAL

\* C9: when a first message, sent from idle or while a root question is
\* awaited, is classified as a specific cultivar, the retrieval stage runs
\* before the generation call, the answer is delivered, and afterwards the
\* user's state is idle.
C9_SpecificFirstMessage ==
  \A s \in Slots :
    LET t == tasks[s] IN
    (/\ Ended(t) /\ FirstMessage(t) /\ Specific(t.cls)
     /\ t.st0 \in {Absent} \cup AwaitingRootQuestion) =>
      /\ RetrievedBeforeGeneration(t, t.cat, t.cls)
      /\ t.res = "answer"
      /\ CONSULTATION_STATE[t.user] = Absent

SummerLabel(general) ==
  IF general = RASPBERRY_GENERAL THEN RASPBERRY_SUMMER ELSE STRAWBERRY_SUMMER
RemontantLabel(general) ==
  IF general = RASPBERRY_GENERAL THEN RASPBERRY_REMONTANT ELSE STRAWBERRY_REMONTANT

\* The turn answered the cultivar-type question for a stored general cultivar.
CultivarTypeAnswered(t) ==
  /\ Ended(t) /\ t.h = "handle_variety_clarification"
  /\ t.ctx0.culture \in GeneralCultures
  /\ t.res = "answer"

\* The topic and the stored context carry the label and the retrieval stage
\* ran with exactly that label as cultivar filter.
CultivarSet(t, label) ==
  /\ topics[t.tid].culture = label
  /\ CONSULTATION_CONTEXT[t.user].culture = label
  /\ RetrievedBeforeGeneration(t, t.ctx0.category, label)

C3_QuotaRange ==
  \A i \in 1..Len(topics) :
    /\ topics[i].left \in 0..FOLLOW_UP_QUOTA
    /\ topics[i].left # FOLLOW_UP_QUOTA => get_topic_message_count(topics, i) >= 2

\* A follow-up was taken on a topic whose quota was already 0 and the quota
\* stayed at 0.
C3_Witness ==
  \E s \in Slots :
    LET t == tasks[s] IN
    /\ Ended(t) /\ t.dec /\ t.left0 = 0 /\ topics[t.tid].left = 0

\* C4: a follow-up on the same topic that arrives when the topic's quota is
\* 0 is not answered (no generation call, no reply) before the quota has
\* been replenished.
C4_NoAnswerAtZeroQuota ==
  \A s \in Slots :
    LET t == tasks[s] IN
    (/\ t.h = "handle_consultation_root" /\ t.fu /\ ~t.changed
     /\ t.tid # 0 /\ t.tid <= Len(t.lefts) /\ t.lefts[t.tid] = 0) =>
      /\ "generate" \notin Ops(t)
      /\ t.res # "answer"

\* C1: in every reachable state at most one topic of a user is open, also
\* when turns of that user overlap.
C1_OneOpenTopic ==
  \A u \in Users : Cardinality(OpenTopicIds(u)) <= 1

ContextExpecting ==
  {"waiting_variety_clarification", "waiting_clarification_answer",
   "waiting_nutrition_clarification", "waiting_param_replacement"}

\* C6: when a message is taken up in a state expecting a stored context
\* while the user's context is missing, the handler completes at once
\* without raising, has sent the "please restart" message, and has reset
\* the user's state to idle.
C6_MissingContext ==
  [][\A s \in Slots :
       (/\ Free(s) /\ tasks'[s] # tasks[s]
        /\ tasks'[s].st0 \in ContextExpecting /\ tasks'[s].ctx0 = NoCtx) =>
         /\ tasks'[s].pc = "done"
         /\ "restart" \in {tasks'[s].out[i] : i \in 1..Len(tasks'[s].out)}
         /\ CONSULTATION_STATE'[tasks'[s].user] = Absent]_vars

RECURSIVE AuditSum(_, _)
AuditSum(log, u) ==
  IF log = <<>> THEN 0
  ELSE (IF Head(log).user = u THEN Head(log).amount ELSE 0) + AuditSum(Tail(log), u)

InDebit(s) == tasks[s].pc \in {"ded_update", "ded_insert", "ded_commit"}

\* C2: under overlapping debits of one user the balance is never negative,
\* the balance equals the initial balance plus the audited amounts (no
\* debit or credit is lost), a debit past its check holds the row lock and
\* has read a balance of at least its cost, and no two debits of a user are
\* between their locked read and their commit at the same time.
C2_DebitsSerialized ==
  /\ \A u \in Users : token_balance[u] >= 0
  /\ \A u \in Users :
       token_balance[u] = InitBalance + AuditSum(token_transactions, u)
  /\ \A s \in Slots :
       tasks[s].pc \in {"ded_update", "ded_insert"} =>
         /\ token_balance[tasks[s].user] >= tasks[s].amount
         /\ row_lock[tasks[s].user] \in {0, s}
  /\ \A s1, s2 \in Slots :
       (s1 # s2 /\ InDebit(s1) /\ InDebit(s2)) => tasks[s1].user # tasks[s2].user

\* Two purchases passed the unlocked balance check together; the debit of
\* one was committed and the other, reading under the lock, was refused.
C2_Witness ==
  \E s1, s2 \in Slots :
    /\ s1 # s2
    /\ tasks[s1].user = tasks[s2].user
    /\ tasks[s1].h = "handle_get_more_questions" /\ tasks[s1].res = "granted"
    /\ tasks[s2].h = "handle_get_more_questions" /\ tasks[s2].pc = "done"
    /\ tasks[s2].out = <<"debit_failed">>
    /\ token_balance[tasks[s1].user] = 0

\* The qualifier keywords the cultivar-type answer is searched for.
QualifierWords(general) ==
  RemontantWords \cup
    (IF general = STRAWBERRY_GENERAL THEN StrawberrySummerWords ELSE RaspberrySummerWords)

\* The turn took up an answer to the cultivar-type question with the stored
\* context of a general cultivar.
CultivarTypeTurn(t) ==
  /\ Ended(t) /\ t.h = "handle_variety_clarification"
  /\ t.ctx0.culture \in GeneralCultures

ClarificationAnswerTurn(t) ==
  /\ Ended(t) /\ t.cls # NoneVal /\ t.ctx0 # NoCtx
  /\ t.h \in {"handle_clarification_answer", "handle_nutrition_clarification"}

AsksClarifyingQuestion(t) ==
  /\ t.res = "clarifying_question"
  /\ "generate" \notin Ops(t) \/ JudgedClarifying(t.reply)
  /\ CONSULTATION_STATE[t.user] \in AwaitingClarificationAnswer

AsksCultivarType(t) ==
  /\ t.out = <<"variety_question">>
  /\ Ops(t) = {"classify"}
  /\ CONSULTATION_STATE[t.user] = AwaitingCultivarType

\* The cultivar filter is the label when it names a plant, none otherwise.
AnswersWithRetrieval(t) ==
  /\ RetrievedBeforeGeneration(t, t.cat,
                               IF t.cls \in VagueCultures THEN NoneVal ELSE t.cls)
  /\ t.res = "answer"

DetectorDecision(t) ==
  IF \E i \in 1..Len(t.calls) : t.calls[i].op = "compare"
  THEN (CHOOSE c \in {t.calls[i] : i \in 1..Len(t.calls)} : c.op = "compare").subcategory
  ELSE NoneVal

DetectorFailed(t) ==
  \E i \in 1..Len(t.calls) : t.calls[i].op = "compare" /\ t.calls[i].category = "failed"

C14_CategoryImmutable ==
  [][\A i \in 1..Len(topics) :
       topics[i].category # NoneVal => topics'[i].category = topics[i].category]_vars

\* The topic a follow-up arrived on: the user's latest topic at the start
\* of the turn.
ArrivalTopic(t) == Len(t.lefts)

\* Its category as the turn uses it: the stored one, the default when none
\* is stored.
SavedCategory(t) ==
  IF topics[ArrivalTopic(t)].category \in {NoneVal, ""} THEN GENERAL_CONSULTATION
  ELSE topics[ArrivalTopic(t)].category

Classifier(t) == t.h \in {"detect_culture_name", "detect_category_and_culture"}
Returned(t) == t.pc = "done" /\ t.res = "returned"
FailedReplies == {"error", "empty", "not json", "not object"}

\* C16: a call of the classifier never raises to its caller, and when the
\* model provider fails, answers nothing or answers something unparseable
\* the call returns what the keyword heuristic finds in the text.
C16_NeverRaises ==
  \A s \in Slots :
    LET t == tasks[s] IN
      Classifier(t) =>
        /\ t.pc # "crashed"
        /\ Returned(t) /\ t.k \in FailedReplies =>
             /\ t.cls = _keyword_fallback(t.kw)
             /\ t.h = "detect_category_and_culture" =>
                  t.cat = _keyword_category_fallback(t.kw)

Families == {"strawberry", "raspberry", "blueberry"}
FamiliesIn(text) == {f \in Families : In(f, text)}
Classify(t) == t.h = "detect_category_and_culture" /\ Returned(t)

SummerSynonyms == {"summer", "june", "ordinary", "traditional"}
RemontantSynonyms == {"remontant", "nsd_cyr", "neutral"}
CultivarNames == {"albion", "gusar"}
GeneralLabelOf(f) ==
  CASE f = "strawberry" -> STRAWBERRY_GENERAL
    [] f = "raspberry" -> RASPBERRY_GENERAL
    [] OTHER -> BLUEBERRY
SummerLabelOf(f) ==
  IF f = "strawberry" THEN STRAWBERRY_SUMMER ELSE RASPBERRY_SUMMER
RemontantLabelOf(f) ==
  IF f = "strawberry" THEN STRAWBERRY_REMONTANT ELSE RASPBERRY_REMONTANT

\* C18: for a text naming exactly one plant family (and no cultivar of
\* another) classify returns the family's summer-bearing label when the
\* text holds a summer/June-bearing/ordinary/traditional synonym, its
\* remontant label when it holds a remontant/day-neutral synonym, and the
\* family's general label when it holds no qualifier.
C18_QualifiedLabel ==
  \A s \in Slots :
    LET t == tasks[s] IN
      Classify(t) /\ t.kw \cap CultivarNames = {} =>
        \A f \in Families :
          FamiliesIn(t.kw) = {f} =>
            /\ (f # "blueberry" /\ t.kw \cap SummerSynonyms # {}
                  /\ t.kw \cap RemontantSynonyms = {}) => t.cls = SummerLabelOf(f)
            /\ (f # "blueberry" /\ t.kw \cap RemontantSynonyms # {}
                  /\ t.kw \cap SummerSynonyms = {}) => t.cls = RemontantLabelOf(f)
            /\ t.kw \cap (SummerSynonyms \cup RemontantSynonyms) = {} =>
                  t.cls = GeneralLabelOf(f)

GenericWords == {"berry", "bush", "shrub"}
LabelsOf(f) ==
  IF f = "blueberry" THEN {BLUEBERRY}
  ELSE {GeneralLabelOf(f), SummerLabelOf(f), RemontantLabelOf(f)}

\* C19: the keyword heuristic returns a label of the family when the text
\* names exactly one plant family, "general information" when it names no
\* family but holds a generic berry/shrub word, and "undetermined" when it
\* holds nothing the heuristic knows (the empty text included).
C19_KeywordHeuristic ==
  \A s \in Slots :
    LET t == tasks[s] IN
      t.h = "_keyword_fallback" /\ Returned(t) /\ t.kw \cap CultivarNames = {} =>
        /\ \A f \in Families : FamiliesIn(t.kw) = {f} => t.cls \in LabelsOf(f)
        /\ FamiliesIn(t.kw) = {} /\ t.kw \cap GenericWords # {} => t.cls = GENERAL_INFO
        /\ t.kw \subseteq {"feeding", "planting"} => t.cls = UNDETERMINED

Parsed(t) == Classify(t) /\ t.k = "json"

\* C20: after a parsed model response, a vague culture of the model
\* ("general information", "undetermined") gives way to a concrete label
\* of the keyword heuristic, and a specific culture of the model is
\* returned as it is when the heuristic's result is vague.
C20_HeuristicOverride ==
  \A s \in Slots :
    LET t == tasks[s]
        keyword_culture == _keyword_fallback(t.kw)
    IN Parsed(t) =>
         /\ (t.ncul \in VagueCultures /\ keyword_culture \notin VagueCultures) =>
               t.cls = keyword_culture
         /\ (t.ncul \notin VagueCultures \cup {""} /\ keyword_culture \in VagueCultures) =>
               t.cls = t.ncul

\* Reached: the model names strawberry for a text about berries in
\* general, and "strawberry general" is returned.
C20_Witness ==
  \E s \in Slots :
    LET t == tasks[s] IN
      /\ Parsed(t) /\ t.kw = {"berry"}
      /\ _keyword_fallback(t.kw) = GENERAL_INFO
      /\ t.ncul = STRAWBERRY_GENERAL /\ t.cls = STRAWBERRY_GENERAL

\* The families a text names, by its family word or by a cultivar of it.
NamedFamilies(text) ==
  FamiliesIn(text)
    \cup (IF "albion" \in text THEN {"strawberry"} ELSE {})
    \cup (IF "gusar" \in text THEN {"raspberry"} ELSE {})

\* C21: a text with a summer/remontant qualifier word and no plant family
\* is classified "general information", and the classifier never returns
\* a label of a family the text does not name.
C21_NoInventedFamily ==
  \A s \in Slots :
    LET t == tasks[s] IN
      Classifier(t) /\ Returned(t) =>
        /\ (NamedFamilies(t.kw) = {}
              /\ t.kw \cap (SummerSynonyms \cup RemontantSynonyms) # {}) =>
             t.cls = GENERAL_INFO
        /\ \A f \in Families : t.cls \in LabelsOf(f) => f \in NamedFamilies(t.kw)

\* -------------------------------------------------------------- retriever
\* Distances are in hundredths.  A row of either table is its category,
\* its subcategory (the culture) and its distance to the query embedding.
MaxRows == 2
QA_LIMIT == 2
LEVEL2_LIMIT == 2
LEVEL3_LIMIT == 2
QA_DISTANCE_THRESHOLD == 40
DOC_DISTANCE_THRESHOLD == 35

RowCultures == {RASPBERRY_SUMMER, RASPBERRY_GENERAL}
KbRows ==
  [category : {NUTRITION, PLANTING}, subcategory : RowCultures, distance : {30, 40, 41}]
ChunkRows ==
  [category : {NUTRITION, PLANTING}, subcategory : RowCultures, distance : {20, 35, 36}]
\* The culture retrieve_unified_snippets is called with: None or a label.
RetrieveCultures == {NoneVal, RASPBERRY_SUMMER, RASPBERRY_GENERAL}

SameSubcategory(subcategory) == subcategory

get_general_subcategory(subcategory) ==
  IF subcategory \in {NoneVal, ""} THEN NoneVal
  ELSE CASE subcategory \in {RASPBERRY_REMONTANT, RASPBERRY_SUMMER, RASPBERRY_GENERAL}
              -> RASPBERRY_GENERAL
         [] subcategory \in {STRAWBERRY_REMONTANT, STRAWBERRY_SUMMER, STRAWBERRY_GENERAL}
              -> STRAWBERRY_GENERAL
         [] OTHER -> subcategory

\* ORDER BY distance LIMIT n: the n nearest rows, nearest first; rows at
\* the same distance come in any order.
Nearest(rows, n) ==
  {T \in SUBSET rows :
     /\ Cardinality(T) = IF Cardinality(rows) < n THEN Cardinality(rows) ELSE n
     /\ \A a \in T, b \in rows \ T : a.distance <= b.distance}
ByDistance(T) ==
  {q \in [1..Cardinality(T) -> T] :
     /\ \A i, j \in 1..Cardinality(T) : i < j => q[i] # q[j] /\ q[i].distance <= q[j].distance}

\* rows = [r for r in rows if r["distance"] <= distance_threshold]
within_threshold(distance, distance_threshold) == distance <= distance_threshold

\* WHERE category = $2 AND ($3 IS NULL OR subcategory = $3)
where_clause(row, category, subcategory) ==
  /\ row.category = category
  /\ subcategory = NoneVal \/ row.subcategory = subcategory

\* The results a search of a table can give.
Search(table, category, subcategory, limit, distance_threshold) ==
  LET matching == {r \in table : where_clause(r, category, subcategory)}
      Kept(q) == SelectSeq(q, LAMBDA r : within_threshold(r.distance, distance_threshold))
  IN {Kept(q) : q \in UNION {ByDistance(T) : T \in Nearest(matching, limit)}}

kb_search(category, subcategory, limit, distance_threshold) ==
  Search(knowledge_base, category, subcategory, limit, distance_threshold)

chunks_search(category, subcategory, limit, distance_threshold) ==
  Search(document_chunks, category, subcategory, limit, distance_threshold)

Snippets(rows, level) ==
  [i \in 1..Len(rows) |->
     [priority_level |-> level, distance |-> rows[i].distance,
      category |-> rows[i].category, subcategory |-> rows[i].subcategory]]

\* list.sort(key=...): stable, smallest key first.
SortedBy(seq, Less(_, _)) ==
  LET n == Len(seq)
      pos(i) == 1 + Cardinality({j \in 1..n : \/ Less(seq[j], seq[i])
                                              \/ (~Less(seq[i], seq[j]) /\ j < i)})
  IN [k \in 1..n |-> seq[CHOOSE i \in 1..n : pos(i) = k]]

SortByDistance(all_snippets) ==
  SortedBy(all_snippets, LAMBDA a, b : a.distance < b.distance)

\* all_snippets.sort(key=lambda x: (x["priority_level"], x["distance"]))
sort_all_snippets(all_snippets) ==
  SortedBy(all_snippets,
           LAMBDA a, b : \/ a.priority_level < b.priority_level
                         \/ (a.priority_level = b.priority_level /\ a.distance < b.distance))

\* ---- a call of retrieve_unified_snippets: cat and cul are its category
\* and subcategory, out is all_snippets, calls the searches made so far
\* (op "... raised" for a search the backend failed).
Retrieving(t) == t.h = "retrieve_unified_snippets"
Searched(t, op, subcategory) == [t EXCEPT !.calls = Append(@, Call(op, t.cat, subcategory))]
Found(t, rows, level) == [t EXCEPT !.out = @ \o Snippets(rows, level)]

level1_raised(t) == [t EXCEPT !.res = "raised", !.pc = "crashed"]

\* except Exception as e: print(...)
level1_caught(t) == [t EXCEPT !.pc = "level2"]

FallbackWhenEmpty(qa_rows, subcategory) == qa_rows = <<>>

\* if not qa_rows and subcategory is not None
needs_fallback(qa_rows, subcategory) == qa_rows = <<>> /\ subcategory # NoneVal

\* LEVEL 1: kb_search restricted to (category, subcategory)
retrieve_level1(s) ==
  /\ Retrieving(tasks[s]) /\ tasks[s].pc = "level1"
  /\ \/ tasks' = [tasks EXCEPT ![s] =
                    level1_caught(Searched(tasks[s], "kb_search raised", tasks[s].cul))]
     \/ \E qa_rows \in kb_search(tasks[s].cat, tasks[s].cul, QA_LIMIT, QA_DISTANCE_THRESHOLD) :
          tasks' = [tasks EXCEPT ![s] =
                      LET t == Searched(tasks[s], "kb_search", tasks[s].cul) IN
                        IF needs_fallback(qa_rows, t.cul)
                          THEN [t EXCEPT !.pc = "level1_fallback"]
                        ELSE [Found(t, qa_rows, 1) EXCEPT !.pc = "level2"]]
  /\ UNCHANGED <<topics, CONSULTATION_STATE, CONSULTATION_CONTEXT, dbTokens, turns_left, kbTables, sseVars>>

\* LEVEL 1 fallback: kb_search over the whole category
retrieve_level1_fallback(s) ==
  /\ Retrieving(tasks[s]) /\ tasks[s].pc = "level1_fallback"
  /\ \/ tasks' = [tasks EXCEPT ![s] =
                    level1_caught(Searched(tasks[s], "kb_search raised", NoneVal))]
     \/ \E qa_rows \in kb_search(tasks[s].cat, NoneVal, QA_LIMIT, QA_DISTANCE_THRESHOLD) :
          tasks' = [tasks EXCEPT ![s] =
                      [Found(Searched(tasks[s], "kb_search", NoneVal), qa_rows, 1)
                         EXCEPT !.pc = "level2"]]
  /\ UNCHANGED <<topics, CONSULTATION_STATE, CONSULTATION_CONTEXT, dbTokens, turns_left, kbTables, sseVars>>

\* LEVEL 2: chunks_search with the exact subcategory, if one is given
retrieve_level2(s) ==
  /\ Retrieving(tasks[s]) /\ tasks[s].pc = "level2"
  /\ IF tasks[s].cul \in {NoneVal, ""}
       THEN tasks' = [tasks EXCEPT ![s] = [@ EXCEPT !.pc = "level3"]]
     ELSE
       \/ tasks' = [tasks EXCEPT ![s] =
                      [Searched(tasks[s], "chunks_search raised", tasks[s].cul)
                         EXCEPT !.pc = "level3"]]
       \/ \E level2_rows \in chunks_search(tasks[s].cat, tasks[s].cul,
                                           LEVEL2_LIMIT, DOC_DISTANCE_THRESHOLD) :
            tasks' = [tasks EXCEPT ![s] =
                        [Found(Searched(tasks[s], "chunks_search", tasks[s].cul),
                               level2_rows, 2) EXCEPT !.pc = "level3"]]
  /\ UNCHANGED <<topics, CONSULTATION_STATE, CONSULTATION_CONTEXT, dbTokens, turns_left, kbTables, sseVars>>

Returns(t) ==
  [t EXCEPT !.out = sort_all_snippets(@), !.res = "returned", !.pc = "done"]

\* LEVEL 3: chunks_search with the general subcategory when it differs,
\* then the sort and the return.
retrieve_level3(s) ==
  /\ Retrieving(tasks[s]) /\ tasks[s].pc = "level3"
  /\ LET general_subcategory == get_general_subcategory(tasks[s].cul) IN
       IF general_subcategory # NoneVal /\ general_subcategory # tasks[s].cul
         THEN
           \/ tasks' = [tasks EXCEPT ![s] =
                          Returns(Searched(tasks[s], "chunks_search raised",
                                           general_subcategory))]
           \/ \E level3_rows \in chunks_search(tasks[s].cat, general_subcategory,
                                               LEVEL3_LIMIT, DOC_DISTANCE_THRESHOLD) :
                tasks' = [tasks EXCEPT ![s] =
                            Returns(Found(Searched(tasks[s], "chunks_search",
                                                   general_subcategory),
                                          level3_rows, 3))]
       ELSE tasks' = [tasks EXCEPT ![s] = Returns(tasks[s])]
  /\ UNCHANGED <<topics, CONSULTATION_STATE, CONSULTATION_CONTEXT, dbTokens, turns_left, kbTables, sseVars>>

InitRetrieve ==
  /\ topics = <<>>
  /\ CONSULTATION_STATE = [u \in Users |-> Absent]
  /\ CONSULTATION_CONTEXT = [u \in Users |-> NoCtx]
  /\ token_balance = [u \in Users |-> InitBalance]
  /\ token_transactions = <<>>
  /\ row_lock = [u \in Users |-> 0]
  /\ turns_left = 0
  /\ knowledge_base \in {T \in SUBSET KbRows : Cardinality(T) <= MaxRows}
  /\ document_chunks \in {T \in SUBSET ChunkRows : Cardinality(T) <= MaxRows}
  /\ NoStreams
  /\ \E subcategory \in RetrieveCultures :
       tasks = [s \in Slots |->
                  IF s = 1 THEN [IdleTask EXCEPT !.h = "retrieve_unified_snippets",
                                                 !.pc = "level1", !.cat = NUTRITION,
                                                 !.cul = subcategory]
                  ELSE IdleTask]

NextRetrieve ==
  \/ \E s \in Slots : retrieve_level1(s)
  \/ \E s \in Slots : retrieve_level1_fallback(s)
  \/ \E s \in Slots : retrieve_level2(s)
  \/ \E s \in Slots : retrieve_level3(s)

SpecRetrieve == InitRetrieve /\ [][NextRetrieve]_vars

\* ---- retriever claims
Retrieved(t) == Retrieving(t) /\ t.pc = "done" /\ t.res = "returned"

\* C22: the list retrieve returns is ordered by tier, and by distance
\* within a tier: no fragment of a later tier stands before a fragment of
\* an earlier one, whatever the distances.
C22_TierOrder ==
  \A s \in Slots :
    LET t == tasks[s] IN
      Retrieved(t) =>
        \A i, j \in 1..Len(t.out) :
          i < j =>
            /\ t.out[i].priority_level <= t.out[j].priority_level
            /\ t.out[i].priority_level = t.out[j].priority_level =>
                 t.out[i].distance <= t.out[j].distance

\* Reached: a returned list whose first fragment is of tier 1 and whose
\* later tier-2 and tier-3 fragments are both nearer to the query.
C22_Witness ==
  \E s \in Slots :
    LET t == tasks[s] IN
      /\ Retrieved(t) /\ Len(t.out) >= 3
      /\ t.out[1].priority_level = 1
      /\ \E i, j \in 2..Len(t.out) :
           /\ t.out[i].priority_level = 2 /\ t.out[i].distance < t.out[1].distance
           /\ t.out[j].priority_level = 3 /\ t.out[j].distance < t.out[1].distance

KbSearches == {"kb_search", "kb_search raised"}
ChunkSearches == {"chunks_search", "chunks_search raised"}
Level1Hits(t) == {i \in 1..Len(t.out) : t.out[i].priority_level = 1}

\* C23: tier 1 is searched again, over the whole category, exactly when
\* its search restricted to (category, culture) found nothing and a
\* culture was given; that second search comes before any search of
\* tiers 2 and 3, and the searches of tiers 2 and 3 always keep their
\* culture filter.
C23_WideningRetry ==
  \A s \in Slots :
    LET t == tasks[s] IN
      Retrieving(t) =>
        /\ t.pc = "level1_fallback" =>
             /\ t.cul # NoneVal /\ t.out = <<>>
             /\ t.calls = <<Call("kb_search", t.cat, t.cul)>>
        /\ \A i \in 1..Len(t.calls) :
             /\ (t.calls[i].op \in KbSearches /\ t.calls[i].subcategory # t.cul) =>
                  /\ i = 2 /\ t.calls[i].subcategory = NoneVal
                  /\ t.calls[1] = Call("kb_search", t.cat, t.cul)
             /\ t.calls[i].op \in KbSearches => i <= 2
             /\ t.calls[i].op \in ChunkSearches =>
                  t.calls[i].subcategory \in {t.cul, get_general_subcategory(t.cul)} \ {NoneVal}
        /\ (t.pc \in {"level2", "level3", "done"} /\ t.cul # NoneVal
              /\ t.calls[1].op = "kb_search" /\ Level1Hits(t) = {}) =>
             Len(t.calls) >= 2 /\ t.calls[2].op \in KbSearches
        /\ (Len(t.calls) >= 2 /\ t.calls[2].op \in KbSearches) =>
             <<>> \in kb_search(t.cat, t.cul, QA_LIMIT, QA_DISTANCE_THRESHOLD)

\* Reached: a culture given, nothing found for it in tier 1, the search
\* repeated over the category with a hit, then tiers 2 and 3 searched.
C23_Witness ==
  \E s \in Slots :
    LET t == tasks[s] IN
      /\ Retrieved(t) /\ t.cul = RASPBERRY_SUMMER /\ Len(t.calls) = 4
      /\ t.calls[1] = Call("kb_search", t.cat, RASPBERRY_SUMMER)
      /\ t.calls[2] = Call("kb_search", t.cat, NoneVal)
      /\ t.calls[3].op = "chunks_search" /\ t.calls[4].op = "chunks_search"
      /\ \E i \in Level1Hits(t) : t.out[i].subcategory = RASPBERRY_GENERAL

Level2Searched(t) == \E i \in 1..Len(t.calls) : t.calls[i] = Call("chunks_search", t.cat, t.cul)

\* C24: tier 2 searches by the culture alone: once its search has run, a
\* chunk that carries the requested culture and lies below the threshold
\* is among the tier-2 fragments whatever its category (the limit
\* permitting); without a culture tier 2 searches nothing.
C24_CultureOnly ==
  \A s \in Slots :
    LET t == tasks[s]
        same_culture == {r \in document_chunks : r.subcategory = t.cul}
    IN Retrieved(t) =>
         /\ (t.cul # NoneVal /\ Level2Searched(t)
               /\ Cardinality(same_culture) <= LEVEL2_LIMIT) =>
              \A r \in same_culture :
                r.distance < DOC_DISTANCE_THRESHOLD =>
                  \E i \in 1..Len(t.out) :
                    /\ t.out[i].priority_level = 2
                    /\ t.out[i].category = r.category
                    /\ t.out[i].distance = r.distance
         /\ t.cul = NoneVal =>
              /\ \A i \in 1..Len(t.calls) : t.calls[i].op \notin ChunkSearches
              /\ \A i \in 1..Len(t.out) : t.out[i].priority_level = 1

QualifiedLabels ==
  {RASPBERRY_SUMMER, RASPBERRY_REMONTANT, STRAWBERRY_SUMMER, STRAWBERRY_REMONTANT}
FamilyLabel(culture) ==
  IF culture \in {RASPBERRY_SUMMER, RASPBERRY_REMONTANT} THEN RASPBERRY_GENERAL
  ELSE STRAWBERRY_GENERAL
Level3Hits(t) == {i \in 1..Len(t.out) : t.out[i].priority_level = 3}
ChunkCalls(t) == {i \in 1..Len(t.calls) : t.calls[i].op \in ChunkSearches}

\* C25: for a qualified culture tier 3 searches the family's general
\* label, once and last; for a general label, which tier 2 has already
\* searched, and without a culture, tier 3 searches nothing and adds no
\* fragment.
C25_GeneralTier ==
  \A s \in Slots :
    LET t == tasks[s] IN
      Retrieved(t) =>
        IF t.cul \in QualifiedLabels
          THEN /\ Len(t.calls) \in ChunkCalls(t)
               /\ t.calls[Len(t.calls)].subcategory = FamilyLabel(t.cul)
               /\ \A i \in ChunkCalls(t) :
                    i # Len(t.calls) => t.calls[i].subcategory = t.cul
               /\ \A i \in Level3Hits(t) : t.out[i].subcategory = FamilyLabel(t.cul)
        ELSE /\ Level3Hits(t) = {}
             /\ \A i \in ChunkCalls(t) : t.calls[i].subcategory = t.cul
             /\ Cardinality(ChunkCalls(t)) <= 1

\* Reached: "raspberry summer" asked, a tier-3 fragment of "raspberry
\* general" returned.
C25_Witness ==
  \E s \in Slots :
    LET t == tasks[s] IN
      /\ Retrieved(t) /\ t.cul = RASPBERRY_SUMMER
      /\ \E i \in Level3Hits(t) : t.out[i].subcategory = RASPBERRY_GENERAL

\* Reached: "raspberry general" asked, tier 2 searched with a hit, tier 3
\* not searched.
C25_WitnessSkipped ==
  \E s \in Slots :
    LET t == tasks[s] IN
      /\ Retrieved(t) /\ t.cul = RASPBERRY_GENERAL
      /\ Cardinality(ChunkCalls(t)) = 1
      /\ \E i \in 1..Len(t.out) : t.out[i].priority_level = 2

ThresholdOf(level) ==
  IF level = 1 THEN QA_DISTANCE_THRESHOLD ELSE DOC_DISTANCE_THRESHOLD

\* C26: every fragment returned lies strictly below the distance
\* threshold of its tier; a hit at the threshold or above it is dropped.
C26_StrictThreshold ==
  \A s \in Slots :
    LET t == tasks[s] IN
      Retrieving(t) =>
        \A i \in 1..Len(t.out) : t.out[i].distance < ThresholdOf(t.out[i].priority_level)

RaisedOps == {"kb_search raised", "chunks_search raised"}

Raised(t) == {i \in 1..Len(t.calls) : t.calls[i].op \in RaisedOps}

\* The tier a search of the call sequence belongs to: searches of the
\* knowledge base are tier 1; the first search of the chunks is tier 2 when
\* a culture was given, and a later one is tier 3.
ChunkTier(t, i) ==
  IF \E j \in 1..(i - 1) : t.calls[j].op \in {"chunks_search", "chunks_search raised"}
  THEN 3 ELSE 2

TierOfCall(t, i) ==
  IF t.calls[i].op \in {"kb_search", "kb_search raised"} THEN 1 ELSE ChunkTier(t, i)

FailedTiers(t) == {TierOfCall(t, i) : i \in Raised(t)}

Eligible(table, category, subcategory, distance_threshold) ==
  \E r \in table : /\ where_clause(r, category, subcategory)
                   /\ within_threshold(r.distance, distance_threshold)

HasLevel(t, level) == \E i \in 1..Len(t.out) : t.out[i].priority_level = level

\* The tiers that did not fail return what they find: a tier whose search
\* has a hit within reach contributes a fragment.
OtherTiersReturned(t) ==
  LET general_subcategory == get_general_subcategory(t.cul) IN
    /\ (1 \notin FailedTiers(t)
          /\ Eligible(knowledge_base, t.cat, NoneVal, QA_DISTANCE_THRESHOLD))
         => HasLevel(t, 1)
    /\ (2 \notin FailedTiers(t) /\ t.cul # NoneVal
          /\ Eligible(document_chunks, t.cat, t.cul, DOC_DISTANCE_THRESHOLD))
         => HasLevel(t, 2)
    /\ (3 \notin FailedTiers(t) /\ general_subcategory \notin {NoneVal, t.cul}
          /\ Eligible(document_chunks, t.cat, general_subcategory, DOC_DISTANCE_THRESHOLD))
         => HasLevel(t, 3)

\* C27: a failure of the search backend in one tier never makes the
\* retrieval raise; the failed tier contributes no fragment, and the
\* fragments the other tiers find are returned, in tier order.
C27_TierFailureContained ==
  \A s \in Slots :
    LET t == tasks[s] IN
      Retrieving(t) =>
        /\ t.pc # "crashed"
        /\ t.res # "raised"
        /\ Retrieved(t) =>
             /\ \A i \in 1..Len(t.out) : t.out[i].priority_level \notin FailedTiers(t)
             /\ OtherTiersReturned(t)
             /\ \A i, j \in 1..Len(t.out) :
                  i < j => t.out[i].priority_level <= t.out[j].priority_level

C27_Witness ==
  \E s \in Slots :
    LET t == tasks[s] IN
      /\ Retrieved(t)
      /\ FailedTiers(t) = {1}
      /\ \E i, j \in 1..Len(t.out) :
           t.out[i].priority_level = 2 /\ t.out[j].priority_level = 3

C27_WitnessTier2 ==
  \E s \in Slots :
    LET t == tasks[s] IN
      /\ Retrieved(t)
      /\ FailedTiers(t) = {2}
      /\ HasLevel(t, 1) /\ HasLevel(t, 3)

DebitSteps == {"ded_select", "ded_update", "ded_insert", "ded_commit"}

Debited(u, amount) ==
  /\ token_balance' = [token_balance EXCEPT ![u] = @ - amount]
  /\ token_transactions' = Append(token_transactions, [user |-> u, amount |-> 0 - amount])

\* C28: a debit of a user without a balance row or with a balance below
\* the amount returns false, and a debit that returns false leaves the
\* balance and the audit log as they were; a debit that returns true has
\* reduced the balance by exactly the amount and added exactly one audit
\* record carrying the negative amount, in one step: no step of a debit
\* changes one of the two without the other.
C28_DebitAllOrNothing ==
  [][\A s \in Slots :
       LET t == tasks[s]
           t2 == tasks'[s]
           returned == t.pc = "ded_commit" /\ t2.pc = t.dret
       IN (t.pc \in DebitSteps /\ t2 # t) =>
            /\ (t.pc = "ded_select" /\ (token_balance[t.user] = NoRow
                                          \/ token_balance[t.user] < t.amount))
                 => (t2.pc = "ded_commit" /\ ~t2.ok)
            /\ (returned /\ t2.ok) => Debited(t.user, t.amount)
            /\ ~(returned /\ t2.ok) => UNCHANGED <<token_balance, token_transactions>>]_vars

\* Debits have returned true, returned false for a missing row or a short
\* balance, and failed at the INSERT of the audit record.
C28_Witness ==
  \E s \in Slots :
    /\ tasks[s].h = "deduct_tokens" /\ tasks[s].pc = "done" /\ tasks[s].ok
    /\ token_balance["u1"] # NoRow
    /\ AuditSum(token_transactions, "u1") = 0 - tasks[s].amount

C28_WitnessNoRow ==
  \E s \in Slots :
    /\ tasks[s].h = "deduct_tokens" /\ tasks[s].pc = "done" /\ ~tasks[s].ok
    /\ token_balance["u1"] = NoRow /\ token_transactions = <<>>

C28_WitnessShort ==
  \E s \in Slots :
    /\ tasks[s].h = "deduct_tokens" /\ tasks[s].pc = "done" /\ ~tasks[s].ok
    /\ tasks[s].res # "raised"
    /\ token_balance["u1"] \in 0..(tasks[s].amount - 1)

C28_WitnessRolledBack ==
  \E s \in Slots :
    /\ tasks[s].h = "deduct_tokens" /\ tasks[s].pc = "done" /\ tasks[s].res = "raised"
    /\ token_balance["u1"] >= tasks[s].amount /\ token_transactions = <<>>

\* The turn asked a new consultation question, or asked to buy follow-up
\* questions, and debited nothing.
NewQuestion(t) ==
  \/ t.h = "handle_consultation_question_unified"
  \/ FirstMessage(t)

CostOf(t) ==
  IF t.h = "handle_get_more_questions" THEN COST_ADDITIONAL_QUESTIONS ELSE COST_NEW_TOPIC

Refused(t) ==
  /\ t.res = "refused"
  /\ "insufficient_tokens" \in {t.out[i] : i \in 1..Len(t.out)}
  /\ Ops(t) \cap {"classify", "embed", "retrieve", "generate"} = {}

\* C29: a turn that asks a new consultation question or extra follow-up
\* questions while the user's balance is below the cost is refused: the
\* user gets the message about the cost and the balance, the classifier
\* and the generator are not called, and nothing is debited.  (Turns are
\* handled one at a time: a turn that ended without a debit found the
\* balance it leaves.)
C29_RefusedWhenShort ==
  \A s \in Slots :
    LET t == tasks[s] IN
      (/\ Ended(t)
       /\ NewQuestion(t) \/ t.h = "handle_get_more_questions"
       /\ ~t.ok
       /\ token_balance[t.user] < CostOf(t))
        => /\ Refused(t)
           /\ token_balance[t.user] = InitBalance + AuditSum(token_transactions, t.user)

\* The same for the two gated entry points only.
C29_GatedEntryPoints ==
  \A s \in Slots :
    LET t == tasks[s] IN
      (/\ Ended(t)
       /\ t.h \in {"handle_consultation_question_unified", "handle_get_more_questions"}
       /\ ~t.ok
       /\ token_balance[t.user] < CostOf(t))
        => Refused(t)

Purchase(t) == t.h = "handle_get_more_questions"

DebitRecorded(t) ==
  \E i \in 1..Len(token_transactions) :
    token_transactions[i] = [user |-> t.user, amount |-> 0 - COST_ADDITIONAL_QUESTIONS]

MessageTurn(t) == t.h \notin {"none", "handle_get_more_questions", "add_tokens"}

\* C31: from one turn on a topic to the next the topic's counter of
\* follow-up questions never grows and never falls below 0: while a
\* message is handled and after it, no topic's counter is above the value
\* the turn found, and none is negative.
C31_QuotaNeverGrows ==
  \A s \in Slots :
    LET t == tasks[s] IN
      (MessageTurn(t) /\ t.pc # "idle") =>
        \A i \in 1..Len(t.lefts) :
          /\ topics[i].left <= t.lefts[i]
          /\ topics[i].left >= 0

\* A follow-up has taken the last question of its topic.
C31_Witness ==
  \E s \in Slots :
    LET t == tasks[s] IN
      /\ MessageTurn(t) /\ Ended(t) /\ t.dec
      /\ t.tid \in 1..Len(t.lefts) /\ t.lefts[t.tid] = 1
      /\ topics[t.tid].left = 0

\* A follow-up on a topic with no question left has left the counter at 0.
C31_WitnessAtZero ==
  \E s \in Slots :
    LET t == tasks[s] IN
      /\ MessageTurn(t) /\ Ended(t) /\ t.dec
      /\ t.tid \in 1..Len(t.lefts) /\ t.lefts[t.tid] = 0
      /\ topics[t.tid].left = 0

Sent(t) == {t.out[i] : i \in 1..Len(t.out)}

\* The turn worked on a topic and sent the user something.
TopicTurn(t) ==
  /\ Ended(t) /\ t.tid \in 1..Len(topics)
  /\ t.h \notin {"cmd_start", "handle_get_more_questions"}
  /\ Sent(t) # {}

EndsWith(log, tail) ==
  /\ Len(log) >= Len(tail)
  /\ \A k \in 1..Len(tail) : log[Len(log) - Len(tail) + k] = tail[k]

CountOf(log, k, dir) == Cardinality({j \in 1..k : log[j] = dir})

\* C32: every turn appends a message for the user's input and one for the
\* bot's output to its topic, the user's first, the questions the bot asks
\* included, so that a topic's log is a sequence of pairs (user, bot).
C32_UserThenBot ==
  /\ \A i \in 1..Len(topics) :
       \A k \in 1..Len(topics[i].log) :
         topics[i].log[k] = IF k % 2 = 1 THEN "user" ELSE "bot"
  /\ \A s \in Slots :
       TopicTurn(tasks[s]) => EndsWith(topics[tasks[s].tid].log, <<"user", "bot">>)

FixedQuestions == {"variety_question", "which_culture"}

\* C32 amended: a turn that delivers a generated reply (a final answer or a
\* clarifying question written by the generator) appends the user's message
\* and then the bot's reply to its topic; a turn that ends with a fixed
\* question (cultivar type, which crop) appends the user's message only.  In
\* a topic's log no bot reply stands without a user message before it.
C32_UserThenBotAmended ==
  /\ \A i \in 1..Len(topics) :
       \A k \in 1..Len(topics[i].log) :
         CountOf(topics[i].log, k, "bot") <= CountOf(topics[i].log, k, "user")
  /\ \A s \in Slots :
       LET t == tasks[s] IN
         /\ (TopicTurn(t) /\ "reply" \in Sent(t))
              => EndsWith(topics[t.tid].log, <<"user", "bot">>)
         /\ (TopicTurn(t) /\ Sent(t) \cap FixedQuestions # {})
              => EndsWith(topics[t.tid].log, <<"user">>)

\* A turn has ended with the cultivar-type question and a later turn on the
\* same topic with a generated reply: the log holds user, user, bot.
C32_Witness ==
  \E s \in Slots :
    LET t == tasks[s] IN
      /\ TopicTurn(t) /\ "reply" \in Sent(t)
      /\ EndsWith(topics[t.tid].log, <<"user", "user", "bot">>)

\* C33: the turns of one user are handled one after another: no message
\* of a user is taken up while an earlier message of that user, routed on
\* the same value of the conversation state, is still being handled.
C33_TurnAtomic ==
  \A s1, s2 \in Slots :
    (/\ s1 # s2
     /\ ~Free(s1) /\ ~Free(s2)
     /\ tasks[s1].user = tasks[s2].user)
      => tasks[s1].st0 # tasks[s2].st0

TopicsOf(T, u) == {i \in 1..Len(T) : T[i].user = u}

\* C34: whatever the interleaving of the turns of different users, a step
\* of a turn of user A leaves the conversation state, the context and the
\* topics of every other user B as they are, works on a topic of A only,
\* and a topic it opens belongs to A.
C34_CrossUserFrame ==
  [][\A s \in Slots :
       tasks'[s] # tasks[s] =>
         LET A == tasks'[s].user IN
           /\ \A B \in Users \ {A} :
                /\ CONSULTATION_STATE'[B] = CONSULTATION_STATE[B]
                /\ CONSULTATION_CONTEXT'[B] = CONSULTATION_CONTEXT[B]
                /\ \A i \in TopicsOf(topics, B) : topics'[i] = topics[i]
           /\ \A i \in (Len(topics) + 1)..Len(topics') : topics'[i].user = A
           /\ tasks'[s].tid # 0 => topics'[tasks'[s].tid].user = A
           /\ CONSULTATION_CONTEXT'[A].topic_id # 0 =>
                topics'[CONSULTATION_CONTEXT'[A].topic_id].user = A]_vars

\* Both users have an open topic with an answered question, the turn of
\* one having run while the turn of the other was suspended.
C34_Witness ==
  /\ \A u \in Users :
       \E i \in TopicsOf(topics, u) : EndsWith(topics[i].log, <<"user", "bot">>)
  /\ \E i \in TopicsOf(topics, "u1"), j \in TopicsOf(topics, "u2") : j < i
  /\ tasks[1].res = "answer"
  /\ tasks[2].pc \notin {"idle", "done"}

\* The generation call of the turn failed: the reply is the apology.
GenerationFailed(t) == Ended(t) /\ t.reply.kind = "apology"

\* C35: when the generation call of a turn fails, the user gets exactly
\* one apology message, the user's conversation state and context are what
\* they were before the turn, so that the message can be sent again, and
\* the apology is not taken for a delivered final answer.
C35_FailureKeepsState ==
  \A s \in Slots :
    LET t == tasks[s] IN
      GenerationFailed(t) =>
        /\ t.out = <<"reply">>
        /\ CONSULTATION_STATE[t.user] = t.st0
        /\ CONSULTATION_CONTEXT[t.user] = t.ctx0
        /\ t.res # "answer"

\* The same for the conversation state and the context alone.
C35_StateAndContextKept ==
  \A s \in Slots :
    LET t == tasks[s] IN
      GenerationFailed(t) =>
        /\ CONSULTATION_STATE[t.user] = t.st0
        /\ CONSULTATION_CONTEXT[t.user] = t.ctx0

\* C36: a failure of the moderation submit is not seen by the user and
\* does not alter the turn: a turn whose submit fails does not raise, and
\* having delivered its reply it ends as it does when the submit succeeds,
\* reply logged and conversation state updated.
C36_ModerationFailureHidden ==
  \A s \in Slots :
    LET t == tasks[s] IN
      (t.mod /\ "reply" \in Sent(t)) =>
        /\ t.pc = "done"
        /\ t.res # "moderation_add raised"
        /\ EndsWith(topics[t.tid].log, <<"bot">>)

\* The same for the handlers of entry.py, which wrap the submit in a try.
C36_EntryHandlers ==
  \A s \in Slots :
    LET t == tasks[s] IN
      (/\ t.mod /\ "reply" \in Sent(t)
       /\ t.h \in {"handle_consultation_root", "handle_clarification_answer"})
        => /\ t.pc = "done"
           /\ EndsWith(topics[t.tid].log, <<"bot">>)

\* A turn of a clarification handler of the nutrition flow whose submit
\* failed: the state still awaits the clarification.
C36_StateNotReset ==
  \E s \in Slots :
    LET t == tasks[s] IN
      /\ t.res = "moderation_add raised"
      /\ CONSULTATION_STATE[t.user] = t.st0
      /\ t.st0 # Absent

\* A turn of entry.py whose submit failed and which ended with its answer.
C36_CaughtInEntry ==
  \E s \in Slots :
    LET t == tasks[s] IN
      /\ t.mod /\ t.pc = "done" /\ t.res = "answer"
      /\ t.h = "handle_consultation_root"

\* C37: every turn eventually completes with a reply, even if an external
\* call never returns: a turn that has reached its embedding and retrieval
\* calls eventually ends with a reply sent.
C37_TurnCompletes ==
  (tasks[1].pc = "embed") ~> (Ended(tasks[1]) /\ "reply" \in Sent(tasks[1]))

\* A turn suspended for ever at the retriever query.
C37_Blocked == tasks[1].pc = "blocked"

\* C38: no answer for a new topic is produced without a successful debit
\* of the new-topic cost: a turn that asked a new consultation question and
\* whose question was classified or answered has debited the cost, with the
\* audit record of it written.
C38_AnsweredOnlyWhenDebited ==
  \A s \in Slots :
    LET t == tasks[s] IN
      (/\ Ended(t) /\ NewQuestion(t)
       /\ Ops(t) \cap {"classify", "generate"} # {})
        => /\ t.ok
           /\ \E i \in 1..Len(token_transactions) :
                token_transactions[i] = [user |-> t.user, amount |-> 0 - COST_NEW_TOPIC]

\* The same for the entry point that checks the balance: the question is
\* answered although the debit was refused.
C38_GatedEntryPoint ==
  \A s \in Slots :
    LET t == tasks[s] IN
      (/\ Ended(t) /\ t.h = "handle_consultation_question_unified"
       /\ "generate" \in Ops(t))
        => t.ok

\* The steps of the clear_change branch of a follow-up turn.
ClearChangeDecided(t, t2) == t.pc = "root_compare" /\ t2.pc = "goc_select"
ClearChangeOpening(t) == t.pc \in {"goc_select", "goc_insert"} /\ t.ret = "root_newtopic"
OpenTopicsOf(T, u) == {i \in 1..Len(T) : T[i].user = u /\ T[i].status = "open"}

\* What the steps of the clear_change branch do; always: also when the
\* old topic has no category stored.
ClearChangeSteps(always) ==
  \A s \in Slots :
       LET t == tasks[s]
           t2 == tasks'[s]
       IN /\ ClearChangeDecided(t, t2) =>
               /\ t.fu /\ t.tid \in OpenTopicsOf(topics, t.user)
               /\ topics'[t.tid].status = "closed"
               /\ OpenTopicsOf(topics', t.user) = {}
               /\ Len(topics') = Len(topics)
               /\ (always \/ topics[t.tid].category # NoneVal) =>
                    t2.cat = topics[t.tid].category
          /\ (ClearChangeOpening(t) /\ t2 # t) =>
               /\ t.pc = "goc_select" => (t2.pc = "goc_insert" /\ topics' = topics)
               /\ t.pc = "goc_insert" =>
                    /\ topics' = Append(topics, NewTopic(t.user))
                    /\ t2.tid = Len(topics') /\ t2.pc = "root_newtopic"
          /\ (t.pc = "root_newtopic" /\ t2 # t) =>
               /\ Len(topics') = Len(t.lefts) + 1 /\ t.tid = Len(topics')
               /\ OpenTopicsOf(topics', t.user) = {t.tid}
               /\ topics'[t.tid].category = t.cat
               /\ topics'[t.tid].culture = t.ncul
               /\ topics'[t.tid].left = FOLLOW_UP_QUOTA
               /\ topics'[t.tid].log = <<"user">>
               /\ ~t2.dec
               /\ \A i \in 1..Len(t.lefts) : topics'[i].left = t.lefts[i]
          /\ (t.changed /\ ~Free(s) /\ t2 # t) =>
               /\ \A i \in 1..Len(t.lefts) : topics'[i].left = t.lefts[i]
               /\ topics'[t.tid].left = FOLLOW_UP_QUOTA
               /\ topics'[t.tid].category = t.cat
               /\ topics'[t.tid].culture = t.ncul

\* C39: on a follow-up turn where the detector returns clear_change the
\* user's current topic is closed and exactly one new topic is opened; the
\* new topic carries the old topic's category, the newly detected cultivar
\* and a quota of 3, the user's message is logged to the new topic, and
\* the turn decrements no quota.
C39_ClearChange == [][ClearChangeSteps(TRUE)]_vars

\* The same for old topics that have a category stored.
C39_ClearChangeOfStoredCategory == [][ClearChangeSteps(FALSE)]_vars

\* A turn that changed the topic has ended: the old topic is closed with
\* its quota as it was, the new one is open with the new cultivar.
C39_Witness ==
  \E s \in Slots :
    LET t == tasks[s] IN
      /\ Ended(t) /\ t.changed /\ t.fu
      /\ t.tid = Len(topics) /\ t.tid > 1
      /\ topics[t.tid].status = "open"
      /\ topics[t.tid].left = FOLLOW_UP_QUOTA
      /\ topics[t.tid - 1].status = "closed"
      /\ topics[t.tid - 1].user = t.user
      /\ topics[t.tid].category = topics[t.tid - 1].category
      /\ topics[t.tid].culture # topics[t.tid - 1].culture

\* remove_client has been called for c and has not returned.
InRemoveClient(c) == stream[c] \in {"finally", "put"} \/ cleanup.at = c

\* C40: remove_client always terminates and leaves the client absent from
\* the registry, also when the client's queue is full and nothing reads
\* it: a stream handler's cleanup ends with the client removed, and the
\* cleanup loop gets through its list of inactive clients.
C40_RemoveClientTerminates ==
  \A c \in SSEClients :
    /\ (stream[c] = "finally") ~> (stream[c] = "closed" /\ c \notin clients)
    /\ (c \in cleanup.pending) ~> (c \notin cleanup.pending /\ c \notin clients)

\* A stream handler's cleanup suspended on its own full queue, the client
\* still registered.
C40_HandlerBlocked ==
  \E c \in SSEClients : stream[c] = "put" /\ c \in clients /\ full(queue[c])

\* The cleanup loop suspended on the full queue of a client whose handler
\* is waiting for its client to read.
C40_CleanupBlocked ==
  \E c \in SSEClients : cleanup.at = c /\ stream[c] = "send" /\ full(queue[c])

\* A removal that found room in the queue: the signal is queued and the
\* client is gone from the registry.
C40_Removed ==
  \E c \in SSEClients :
    /\ stream[c] = "closed" /\ c \notin clients
    /\ queue[c] # <<>> /\ queue[c][Len(queue[c])] = "None"

====
